---- MODULE Spec2Model ----
(***************************************************************************)
(* A model of the p2p repository: the presence registry of                 *)
(* server/server.js (register / unregister / heartbeat / users and the     *)
(* sweep timer) and the connection orchestrator of                         *)
(* client/services/ConnectionManager.ts (the second, voice-enabled         *)
(* version of the class, lines 473-1113).                                  *)
(*                                                                         *)
(* The specifications share the variables:                                 *)
(*   SpecRegistry   the registry under arbitrary requests and its sweep    *)
(*   SpecHeartbeat  the registry driven by one client's heartbeat timer    *)
(*   Spec           the orchestrator's sessions and the data they deliver  *)
(*   SpecSend       the sessions with sendTo and broadcast                 *)
(*   SpecTeardown   the sessions with removeConnection and                 *)
(*                  closeAllConnections                                    *)
(*   SpecData       one session, the onData subscribers and the payloads   *)
(*   SpecLifecycle  identity, heartbeat timer, subscriptions, calls and    *)
(*                  destroy()                                              *)
(*   SpecCalls      the voice calls and their teardown                     *)
(*   SpecTimer      the heartbeat timer under startHeartbeat and           *)
(*                  stopHeartbeat                                          *)
(*   SpecDiscovery  the page's poll of the registry and the sessions it    *)
(*                  opens, while remote peers come and go                  *)
(*   SpecPipelines  sessions, sends and calls of two remote peers          *)
(*   SpecPolling    the heartbeat and users requests of one client in time *)
(*   SpecVoice      the voice room of the page over the sessions           *)
(*   SpecDispatch   the dispatch of an inbound payload to its handlers     *)
(*   SpecGame       the players of GameWorld under the game updates        *)
(*   SpecRooms      the rooms of the store under its four operations       *)
(*   SpecRejoin     the heartbeat client, with register requests for its   *)
(*                  peer at any time                                       *)
(*   SpecAttempts   the outbound attempts and their open timeouts, with    *)
(*                  the timers fair                                        *)
(* A specification leaves the variables it does not use unchanged.         *)
(*                                                                         *)
(* The transport (peerjs) is outside the repository. Of it the model       *)
(* takes: a connection or call emits 'close' when it closes while open,    *)
(* at once if close() is called on it; close() on one that has not opened  *)
(* emits nothing and keeps it from opening; peer.destroy() closes the      *)
(* connections and calls of that Peer; an answered call is open.           *)
(***************************************************************************)
EXTENDS Integers, Sequences, FiniteSets, TLC

VARIABLES
    \* ---- server/server.js ----
    now,            \* Date.now() of the server, in ms
    onlineUsers,    \* the Map peerId -> {username, lastHeartbeat}, as its set of entries
    sweepDue,       \* the time the setInterval callback runs next
    response,       \* the HTTP response of the last request
    hist,           \* history per peer id: what was asked of the registry so far
    step,           \* the operation that made the last step, with its outputs
    \* ---- one client's heartbeat loop against the registry ----
    client,         \* timer, request in flight and miss count of that client
    \* ---- client/services/ConnectionManager.ts: the fields of the class ----
    peer,               \* this.peer: 0 for null, else the index of a Peer object
    peerId,             \* this.peerId: 0 for '', else the id the signaling server gave
    apiServerUrl,       \* this.apiServerUrl: "" or the url
    heartbeatInterval,  \* this.heartbeatInterval: "null" or "timer"
    connections,        \* this.connections: remote id -> index of a DataConnection, 0 for none
    voiceCalls,         \* this.voiceCalls: remote id -> index of a MediaConnection, 0 for none
    callbacks,          \* the six subscriber sets, by field name
    \* ---- the objects the class drives (peerjs) ----
    peerObjs,           \* the Peer objects made by initializePeer
    conns,              \* the DataConnection objects, outbound and inbound
    calls,              \* the MediaConnection objects
    liveIntervals,      \* how many setInterval heartbeat timers run
    out,                \* what the last step returned, sent and notified
    \* ---- the page and its panels, which drive the class ----
    app                 \* the timers and the state the page keeps

regVars == <<now, onlineUsers, sweepDue, response, hist>>
cmVars ==
    <<peer, peerId, apiServerUrl, heartbeatInterval, connections, voiceCalls,
      callbacks, peerObjs, conns, calls, liveIntervals, out>>
vars == <<now, onlineUsers, sweepDue, response, hist, step, client, cmVars, app>>

-----------------------------------------------------------------------------
(* Program constants of the registry.                                      *)

USER_TIMEOUT == 30000

HEARTBEAT_CHECK_INTERVAL == 10000

(* Bounds of the model.                                                    *)

\* Tick steps the registry specification lets the clock make.
MaxTicks == 9

\* The clock of the registry specification advances in steps of Quantum ms:
\* half a sweep interval, so that a request can fall on a sweep tick and
\* between two of them, and an age can be below, at and above USER_TIMEOUT.
Quantum == HEARTBEAT_CHECK_INTERVAL \div 2

\* Values a request body can carry; "" stands for an empty or missing field.
PeerIds == {"p1", "p2"}

BodyPeerIds == PeerIds \cup {""}

BodyUsernames == {"", "alice", "bob"}

-----------------------------------------------------------------------------
(* The JavaScript Map of server.js, as the set of its entries.             *)

MapHas(m, k) == \E e \in m : e.peerId = k

MapGet(m, k) == CHOOSE e \in m : e.peerId = k

MapSetDup(m, k, username, lastHeartbeat) ==
    m \cup {[peerId |-> k, username |-> username, lastHeartbeat |-> lastHeartbeat]}

MapSet(m, k, username, lastHeartbeat) ==
    {e \in m : e.peerId # k}
        \cup {[peerId |-> k, username |-> username, lastHeartbeat |-> lastHeartbeat]}

MapDeleteAll(m, k) == {}

MapDelete(m, k) == {e \in m : e.peerId # k}

NoResponse == [status |-> 0, success |-> FALSE, users |-> {}]

Respond(status, success) == [status |-> status, success |-> success, users |-> {}]

NoHist ==
    [registered |-> FALSE, swept |-> FALSE, lastSeenAt |-> -1, chain |-> FALSE,
     since |-> -1]

\* name and was: for a register request, the username of its body and the
\* username the Map held for its peerId before, "" if none. was: for
\* startHeartbeat, what this.heartbeatInterval held before; for a heartbeat
\* request, "stale" if the record it found was past the staleness timeout.
Step(op, arg) == [op |-> op, arg |-> arg, name |-> "", was |-> ""]

\* The heartbeat client before its Peer has opened.
NoClient ==
    [state |-> "off", timerDue |-> -1, flight |-> -1, missed |-> 0,
     missedBefore |-> 0, present |-> FALSE, presentBefore |-> FALSE,
     sweeps |-> 0, sweepsBefore |-> 0]

\* The page before it has done anything: no connectToPeer timer is pending,
\* no request is in flight, GameWorld is not mounted and has set no timer.
\* requests holds the heartbeat and users requests in flight, each with the
\* time it was sent at. room is currentVoiceRoom of the store, "" for null,
\* and members the remote peers of playersInRooms for that room, in the
\* order they were added. data is a payload that has arrived, and handled
\* the handlers that took it: "game" for handleGameUpdate, "voice" for the
\* voice update, "chat" for addMessage.
NoData == [enc |-> "none", type |-> "undefined", text |-> "undefined"]

\* A key of otherPlayers without a record. players is otherPlayers of the
\* store: for each remote peer id the record under that key, with the
\* peerId and the position it holds.
NoPlayer == [peerId |-> "", position |-> -1]

\* The room ids of playersInRooms of the store, and a room id without an
\* entry. rooms is playersInRooms: for each room id whether the Map has the
\* key, and the Set under it. added is a history: the peers added to each
\* room and not taken out of it since.
RoomIds == {"room1", "room2"}

NoRoom == [has |-> FALSE, members |-> {}]

NoApp ==
    [scheduled |-> {}, requests |-> {}, mounted |-> FALSE, firstDue |-> -1,
     pollDue |-> -1, room |-> "", members |-> <<>>, data |-> NoData,
     handled |-> {}, players |-> [r \in PeerIds |-> NoPlayer],
     rooms |-> [room \in RoomIds |-> NoRoom],
     added |-> [room \in RoomIds |-> {}]]

-----------------------------------------------------------------------------
(* ConnectionManager.ts: bounds and values.                                *)

\* Peer objects initializePeer may make in one run.
MaxPeerObjs == 2

\* DataConnection objects (outbound attempts and inbound requests) in one run.
MaxConns == 2

\* MediaConnection objects (outbound and answered calls) in one run.
MaxCalls == 2

\* The remote peers: the ids the registry knows them by.
RemoteIds == PeerIds

CallbackFields ==
    {"connectionChangeCallbacks", "peerIdChangeCallbacks", "dataCallbacks",
     "playerRemovedCallbacks", "callCallbacks", "remoteStreamCallbacks"}

\* The callbacks that can subscribe.
Callbacks == {"f"}

\* The callbacks that can subscribe to data.
DataSubscribers == {"f", "g"}

\* A JavaScript Set is kept as the sequence of its members in insertion
\* order, the order forEach visits them in.
Members(set) == {set[n] : n \in 1 .. Len(set)}

ConnIds == 1 .. Len(conns)

CallIds == 1 .. Len(calls)

NoOut ==
    [ret |-> FALSE, threw |-> {}, tried |-> {}, sent |-> {}, emitted |-> {},
     hb |-> FALSE, conn |-> 0, invoked |-> <<>>]

Event(ev, c) == [ev |-> ev, peer |-> conns[c].peer, conn |-> c]

\* new Map(), new Set(), null and '' of the field initialisers
InitManager ==
    /\ peer = 0
    /\ peerId = 0
    /\ apiServerUrl = ""
    /\ heartbeatInterval = "null"
    /\ connections = [r \in RemoteIds |-> 0]
    /\ voiceCalls = [r \in RemoteIds |-> 0]
    /\ callbacks = [f \in CallbackFields |-> <<>>]
    /\ peerObjs = <<>>
    /\ conns = <<>>
    /\ calls = <<>>
    /\ liveIntervals = 0
    /\ out = NoOut

-----------------------------------------------------------------------------
(* server.js: the request handlers and the sweep, on the registry's own    *)
(* variables.                                                              *)

\* The test of the register handler: both fields are there.
RegisterValidIdOnly(id, username) == id # ""

RegisterValid(id, username) == id # "" /\ username # ""

\* app.post('/api/register')
PostRegister(id, username) ==
    /\ IF RegisterValid(id, username)
       THEN /\ onlineUsers' = MapSet(onlineUsers, id, username, now)
            /\ response' = Respond(200, TRUE)
            /\ hist' = [hist EXCEPT ![id] =
                   [registered |-> TRUE, swept |-> FALSE, lastSeenAt |-> now,
                    chain |-> TRUE,
                    since |-> IF hist[id].chain /\ now - hist[id].lastSeenAt <= USER_TIMEOUT
                              THEN hist[id].since ELSE now]]
       ELSE /\ response' = Respond(400, FALSE)
            /\ UNCHANGED <<onlineUsers, hist>>
    /\ UNCHANGED sweepDue

\* The test of the unregister handler: the record exists.
UnregisterKnownAlways(m, id) == id # ""

UnregisterKnown(m, id) == id # "" /\ MapHas(m, id)

\* app.post('/api/unregister')
PostUnregister(id) ==
    /\ IF UnregisterKnown(onlineUsers, id)
       THEN /\ onlineUsers' = MapDelete(onlineUsers, id)
            /\ response' = Respond(200, TRUE)
       ELSE /\ response' = Respond(200, FALSE)
            /\ UNCHANGED onlineUsers
    /\ hist' = IF id \in PeerIds
               THEN [hist EXCEPT ![id] = NoHist]
               ELSE hist
    /\ UNCHANGED sweepDue

\* The test of the heartbeat handler: the record exists.
HeartbeatKnown(id) == id # "" /\ MapHas(onlineUsers, id)

\* The Map after the heartbeat handler has run at time t.
AfterHeartbeatUpsert(m, id, t) == MapSet(m, id, "", t)

AfterHeartbeatLost(m, id, t) == m

AfterHeartbeat(m, id, t) ==
    IF id # "" /\ MapHas(m, id)
    THEN MapSet(m, id, MapGet(m, id).username, t)
    ELSE m

\* app.post('/api/heartbeat')
PostHeartbeat(id) ==
    /\ onlineUsers' = AfterHeartbeat(onlineUsers, id, now)
    /\ response' = IF HeartbeatKnown(id) THEN Respond(200, TRUE)
                                         ELSE Respond(404, FALSE)
    /\ hist' = IF id \in PeerIds
               THEN [hist EXCEPT
                       ![id].lastSeenAt =
                           IF HeartbeatKnown(id) THEN now ELSE @,
                       ![id].chain =
                           @ /\ now - hist[id].lastSeenAt <= USER_TIMEOUT,
                       ![id].since =
                           IF now - hist[id].lastSeenAt <= USER_TIMEOUT THEN @ ELSE -1]
               ELSE hist
    /\ UNCHANGED sweepDue

\* app.get('/api/users'): the list the response carries
ListPeers == {[peerId |-> e.peerId, username |-> e.username] : e \in onlineUsers}

\* app.get('/api/users')
GetUsersTouch ==
    /\ response' = [status |-> 200, success |-> TRUE, users |-> ListPeers]
    /\ onlineUsers' = {[e EXCEPT !.lastHeartbeat = now] : e \in onlineUsers}
    /\ UNCHANGED <<sweepDue, hist>>

GetUsers ==
    /\ response' = [status |-> 200, success |-> TRUE, users |-> ListPeers]
    /\ UNCHANGED <<onlineUsers, sweepDue, hist>>

\* The test of the sweep: the record has timed out.
TimedOutEager(e, t) == t - e.lastHeartbeat >= USER_TIMEOUT

TimedOutLate(e, t) == t - e.lastHeartbeat > USER_TIMEOUT + HEARTBEAT_CHECK_INTERVAL

TimedOut(e, t) == t - e.lastHeartbeat > USER_TIMEOUT

\* The setInterval callback of setupUserRoutes, run when it is due.
SweepTick ==
    /\ now = sweepDue
    /\ onlineUsers' = {e \in onlineUsers : ~TimedOut(e, now)}
    /\ sweepDue' = sweepDue + HEARTBEAT_CHECK_INTERVAL
    /\ response' = NoResponse
    /\ hist' = [p \in PeerIds |->
                 IF \E e \in onlineUsers : e.peerId = p /\ TimedOut(e, now)
                 THEN [hist[p] EXCEPT !.swept = TRUE]
                 ELSE hist[p]]

-----------------------------------------------------------------------------
(* The registry under arbitrary requests.                                  *)

Register(id, username) ==
    /\ PostRegister(id, username)
    /\ step' = [Step("register", id) EXCEPT
                   !.name = username,
                   !.was = IF MapHas(onlineUsers, id)
                           THEN MapGet(onlineUsers, id).username ELSE ""]
    /\ UNCHANGED <<now, client, cmVars, app>>

Unregister(id) ==
    /\ PostUnregister(id)
    /\ step' = Step("unregister", id)
    /\ UNCHANGED <<now, client, cmVars, app>>

Heartbeat(id) ==
    /\ PostHeartbeat(id)
    /\ step' = [Step("heartbeat", id) EXCEPT
                   !.was = IF MapHas(onlineUsers, id)
                              /\ TimedOut(MapGet(onlineUsers, id), now)
                           THEN "stale" ELSE ""]
    /\ UNCHANGED <<now, client, cmVars, app>>

Users ==
    /\ GetUsers
    /\ step' = Step("users", "")
    /\ UNCHANGED <<now, client, cmVars, app>>

Sweep ==
    /\ SweepTick
    /\ step' = Step("sweep", "")
    /\ UNCHANGED <<now, client, cmVars, app>>

\* Time passes; a due sweep runs before the clock moves on.
Tick ==
    /\ now + Quantum <= MaxTicks * Quantum
    /\ now + Quantum <= sweepDue
    /\ now' = now + Quantum
    /\ response' = NoResponse
    /\ step' = Step("tick", "")
    /\ UNCHANGED <<onlineUsers, sweepDue, hist, client, cmVars, app>>

InitRegistry ==
    /\ now = 0
    /\ onlineUsers = {}
    /\ sweepDue = HEARTBEAT_CHECK_INTERVAL
    /\ response = NoResponse
    /\ hist = [p \in PeerIds |-> NoHist]

InitRegistryOnly ==
    /\ InitRegistry
    /\ step = Step("init", "")
    /\ client = NoClient
    /\ InitManager
    /\ app = NoApp

NextRegistry ==
    \/ \E p \in BodyPeerIds, u \in BodyUsernames : Register(p, u)
    \/ \E p \in BodyPeerIds : Unregister(p)
    \/ \E p \in BodyPeerIds : Heartbeat(p)
    \/ Users
    \/ Sweep
    \/ Tick

SpecRegistry == InitRegistryOnly /\ [][NextRegistry]_vars

-----------------------------------------------------------------------------
(* ConnectionManager.ts: identity, heartbeat timer and teardown.           *)

CmStep(op, arg, o) ==
    /\ step' = Step(op, arg)
    /\ out' = o
    /\ UNCHANGED <<regVars, client, app>>

\* sendHeartbeat: whether the guard lets the request go out, given the
\* fields as the call finds them
HeartbeatGoesOutUnlessMissed(id, p, url) ==
    id # 0 /\ p # 0 /\ peerObjs[p].state # "destroyed" /\ url # "" /\ client.missed = 0

HeartbeatGoesOut(id, p, url) ==
    id # 0 /\ p # 0 /\ peerObjs[p].state # "destroyed" /\ url # ""

\* initializePeer: new Peer(peerConfig), setApiServerUrl, and the handlers
\* (PeerOpen, InboundConnection, AnswerCall below) registered on the object
InitializePeer(url) ==
    /\ Len(peerObjs) < MaxPeerObjs
    /\ peerObjs' = Append(peerObjs, [state |-> "pending", abandoned |-> FALSE])
    /\ apiServerUrl' = IF url # "" THEN url ELSE apiServerUrl
    /\ CmStep("initializePeer", "", NoOut)
    /\ UNCHANGED <<peer, peerId, heartbeatInterval, connections, voiceCalls,
                   callbacks, conns, calls, liveIntervals>>

\* startHeartbeat: the number of running setInterval timers after it, given
\* the number before and whether this.heartbeatInterval held one of them
AfterStartHeartbeatNoStop(n, armed) == n + 1

AfterStartHeartbeat(n, armed) == n - (IF armed THEN 1 ELSE 0) + 1

\* peer.on('open') of Peer object i on the fields of the class: setPeerId,
\* setPeer, startHeartbeat
PeerOpenFields(i) ==
    /\ peerObjs[i].state = "pending"
    /\ peerObjs' = [peerObjs EXCEPT ![i].state = "open"]
    /\ peerId' = i
    /\ peer' = i
    /\ IF apiServerUrl # ""
       THEN /\ heartbeatInterval' = "timer"
            /\ liveIntervals' =
                   AfterStartHeartbeat(liveIntervals, heartbeatInterval = "timer")
       ELSE UNCHANGED <<heartbeatInterval, liveIntervals>>
    /\ UNCHANGED <<apiServerUrl, connections, voiceCalls, callbacks, conns, calls>>

\* peer.on('open') of Peer object i
PeerOpen(i) ==
    /\ PeerOpenFields(i)
    /\ CmStep("peerOpen", "",
              [NoOut EXCEPT !.hb = apiServerUrl # "" /\ HeartbeatGoesOut(i, i, apiServerUrl)])

\* the setInterval callback of startHeartbeat: sendHeartbeat
HeartbeatTimer ==
    /\ liveIntervals > 0
    /\ CmStep("heartbeatTimer", "",
              [NoOut EXCEPT !.hb = HeartbeatGoesOut(peerId, peer, apiServerUrl)])
    /\ UNCHANGED <<peer, peerId, apiServerUrl, heartbeatInterval, connections,
                   voiceCalls, callbacks, peerObjs, conns, calls, liveIntervals>>

\* startHeartbeat(), called by the application: stopHeartbeat, setInterval,
\* and one sendHeartbeat at once
StartHeartbeat ==
    /\ heartbeatInterval' = "timer"
    /\ liveIntervals' = AfterStartHeartbeat(liveIntervals, heartbeatInterval = "timer")
    /\ step' = [Step("startHeartbeat", "") EXCEPT !.was = heartbeatInterval]
    /\ out' = [NoOut EXCEPT !.hb = HeartbeatGoesOut(peerId, peer, apiServerUrl)]
    /\ UNCHANGED <<regVars, client, app>>
    /\ UNCHANGED <<peer, peerId, apiServerUrl, connections, voiceCalls, callbacks,
                   peerObjs, conns, calls>>

\* stopHeartbeat(), called by the application: clearInterval
StopHeartbeat ==
    /\ heartbeatInterval' = "null"
    /\ liveIntervals' = liveIntervals - (IF heartbeatInterval = "timer" THEN 1 ELSE 0)
    /\ CmStep("stopHeartbeat", "", NoOut)
    /\ UNCHANGED <<peer, peerId, apiServerUrl, connections, voiceCalls, callbacks,
                   peerObjs, conns, calls>>

\* The connections destroy() closes: those of the map (closeAllConnections)
\* and those of this.peer (peer.destroy()).
DestroyCloses ==
    {connections[r] : r \in RemoteIds} \cup
    (IF peer = 0 THEN {} ELSE {c \in ConnIds : conns[c].owner = peer})

\* The calls peer.destroy() closes.
DestroyClosesCalls ==
    IF peer = 0 THEN {} ELSE {k \in CallIds : calls[k].owner = peer}

\* The subscriber sets destroy() clears.
DestroyClears ==
    {"connectionChangeCallbacks", "peerIdChangeCallbacks", "dataCallbacks",
     "playerRemovedCallbacks"}

\* destroy(): stopHeartbeat, closeAllConnections, this.peer.destroy(), and
\* the fields reset. close() of an open connection or call emits 'close' at
\* once, so the handlers of ConnClose and CallClose run inside this step;
\* close() of one that is not open emits nothing.
Destroy ==
    /\ heartbeatInterval' = "null"
    /\ liveIntervals' = liveIntervals - (IF heartbeatInterval = "timer" THEN 1 ELSE 0)
    /\ connections' = [r \in RemoteIds |-> 0]
    /\ conns' = [c \in ConnIds |->
                  IF c \in DestroyCloses /\ conns[c].state # "closed"
                  THEN [conns[c] EXCEPT !.state = "closed",
                                        !.rem = @ \/ conns[c].state = "open"]
                  ELSE conns[c]]
    /\ calls' = [k \in CallIds |->
                  IF k \in DestroyClosesCalls THEN [calls[k] EXCEPT !.state = "closed"]
                  ELSE calls[k]]
    /\ voiceCalls' = [r \in RemoteIds |->
                       IF \E k \in DestroyClosesCalls :
                              calls[k].state = "active" /\ calls[k].peer = r
                       THEN 0 ELSE voiceCalls[r]]
    /\ peerObjs' = [i \in 1 .. Len(peerObjs) |->
                     IF i = peer THEN [peerObjs[i] EXCEPT !.state = "destroyed"]
                     ELSE IF peerObjs[i].state = "pending"
                          THEN [peerObjs[i] EXCEPT !.abandoned = TRUE]
                          ELSE peerObjs[i]]
    /\ peer' = 0
    /\ peerId' = 0
    /\ apiServerUrl' = ""
    /\ callbacks' = [f \in CallbackFields |->
                      IF f \in DestroyClears THEN <<>> ELSE callbacks[f]]
    /\ CmStep("destroy", "", NoOut)

-----------------------------------------------------------------------------
(* ConnectionManager.ts: sessions.                                         *)

HasOpenSession(r) == connections[r] # 0 /\ conns[connections[r]].state = "open"

\* The pending outbound attempt to r that a new attempt duplicates, 0 if none.
PendingAttempt(r) ==
    IF \E c \in ConnIds : conns[c].peer = r /\ conns[c].kind = "out"
                          /\ conns[c].state = "connecting"
    THEN CHOOSE c \in ConnIds : conns[c].peer = r /\ conns[c].kind = "out"
                                /\ conns[c].state = "connecting"
    ELSE 0

\* connectToPeer: neither early return is taken
ConnectGuardsPassNoDedup(r) == peer # 0 /\ peerObjs[peer].state # "destroyed"

ConnectGuardsPass(r) ==
    peer # 0 /\ peerObjs[peer].state # "destroyed" /\ connections[r] = 0

\* connectToPeer(r) that takes up the closed connection object of an earlier
\* attempt to r, if there is one, instead of making a new one
ConnectAttemptRevives(r, fails) ==
    /\ IF ConnectGuardsPass(r) /\ ~fails
       THEN IF \E c \in ConnIds : conns[c].peer = r /\ conns[c].state = "closed"
            THEN conns' = [c \in ConnIds |->
                             IF conns[c].peer = r /\ conns[c].state = "closed"
                             THEN [conns[c] EXCEPT !.state = "connecting",
                                                   !.timer = "armed"]
                             ELSE conns[c]]
            ELSE /\ Len(conns) < MaxConns
                 /\ conns' = Append(conns,
                        [peer |-> r, kind |-> "out", state |-> "connecting",
                         timer |-> "armed", owner |-> peer, est |-> FALSE,
                         rem |-> FALSE, dupOf |-> PendingAttempt(r)])
       ELSE /\ fails => ConnectGuardsPass(r)
            /\ UNCHANGED conns
    /\ UNCHANGED <<peer, peerId, apiServerUrl, heartbeatInterval, connections,
                   voiceCalls, callbacks, peerObjs, calls, liveIntervals>>

\* connectToPeer(r) on the fields of the class: the two guards, then
\* peer.connect and the open timeout. fails: peer.connect throws, which the
\* catch logs.
ConnectAttempt(r, fails) ==
    /\ IF ConnectGuardsPass(r) /\ ~fails
       THEN /\ Len(conns) < MaxConns
            /\ conns' = Append(conns,
                   [peer |-> r, kind |-> "out", state |-> "connecting",
                    timer |-> "armed", owner |-> peer, est |-> FALSE, rem |-> FALSE,
                    dupOf |-> PendingAttempt(r)])
       ELSE /\ fails => ConnectGuardsPass(r)
            /\ UNCHANGED conns
    /\ UNCHANGED <<peer, peerId, apiServerUrl, heartbeatInterval, connections,
                   voiceCalls, callbacks, peerObjs, calls, liveIntervals>>

\* connectToPeer(r), called at any time
ConnectToPeer(r, fails) ==
    /\ ConnectAttempt(r, fails)
    /\ CmStep("connectToPeer", r, NoOut)

\* peer.on('connection') of Peer object i: a remote peer r asks for a session
InboundConnection(i, r) ==
    /\ peerObjs[i].state = "open"
    /\ Len(conns) < MaxConns
    /\ conns' = Append(conns,
           [peer |-> r, kind |-> "in", state |-> "connecting", timer |-> "none",
            owner |-> i, est |-> FALSE, rem |-> FALSE, dupOf |-> 0])
    /\ CmStep("inboundConnection", "", NoOut)
    /\ UNCHANGED <<peer, peerId, apiServerUrl, heartbeatInterval, connections,
                   voiceCalls, callbacks, peerObjs, calls, liveIntervals>>

\* The connection after conn.on('open') of connectToPeer: clearTimeout,
\* setConnection, onConnected
OutboundOpened(conn) ==
    [conn EXCEPT !.state = "open",
                 !.timer = IF @ = "armed" THEN "cleared" ELSE @,
                 !.est = TRUE]

\* The connection after conn.on('open') of peer.on('connection'):
\* setConnection, callbacks.onConnection
InboundOpenedSilently(conn) == [conn EXCEPT !.state = "open"]

InboundOpened(conn) == [conn EXCEPT !.state = "open", !.est = TRUE]

\* conn.on('open') of either kind
ConnOpen(c) ==
    /\ conns[c].state = "connecting"
    /\ conns' = [conns EXCEPT ![c] = IF conns[c].kind = "out"
                                     THEN OutboundOpened(conns[c])
                                     ELSE InboundOpened(conns[c])]
    /\ connections' = [connections EXCEPT ![conns[c].peer] = c]
    /\ CmStep("connOpen", "", NoOut)
    /\ UNCHANGED <<peer, peerId, apiServerUrl, heartbeatInterval, voiceCalls,
                   callbacks, peerObjs, calls, liveIntervals>>

\* notifyDataCallbacks: the callbacks forEach invokes, in order. throwing:
\* the callbacks that throw; nothing catches, so the first one ends the loop.
DataInvoked(set, throwing) ==
    IF \E n \in 1 .. Len(set) : set[n] \in throwing
    THEN SubSeq(set, 1, CHOOSE n \in 1 .. Len(set) :
                           /\ set[n] \in throwing
                           /\ \A k \in 1 .. n - 1 : set[k] \notin throwing)
    ELSE set

\* conn.on('data'): notifyDataCallbacks
ConnData(c, throwing) ==
    /\ conns[c].state = "open"
    /\ CmStep("connData", "",
              [NoOut EXCEPT !.emitted = {Event("data", c)},
                            !.threw = throwing,
                            !.invoked = DataInvoked(callbacks["dataCallbacks"], throwing)])
    /\ UNCHANGED <<peer, peerId, apiServerUrl, heartbeatInterval, connections,
                   voiceCalls, callbacks, peerObjs, conns, calls, liveIntervals>>

\* conn.on('close') that empties the map
ConnCloseClearsAll(c) ==
    /\ conns[c].state = "open"
    /\ conns' = [conns EXCEPT ![c].state = "closed", ![c].rem = TRUE]
    /\ connections' = [r \in RemoteIds |-> 0]
    /\ CmStep("connClose", "", NoOut)
    /\ UNCHANGED <<peer, peerId, apiServerUrl, heartbeatInterval, voiceCalls,
                   callbacks, peerObjs, calls, liveIntervals>>

\* conn.on('close'): removeConnection, notifyPlayerRemovedCallbacks. The
\* transport emits 'close' when an open connection closes.
ConnClose(c) ==
    /\ conns[c].state = "open"
    /\ conns' = [conns EXCEPT ![c].state = "closed", ![c].rem = TRUE]
    /\ connections' = [connections EXCEPT ![conns[c].peer] = 0]
    /\ CmStep("connClose", "", NoOut)
    /\ UNCHANGED <<peer, peerId, apiServerUrl, heartbeatInterval, voiceCalls,
                   callbacks, peerObjs, calls, liveIntervals>>

\* conn.on('error'): clearTimeout for an outbound attempt, a log line for an
\* accepted one
ConnError(c) ==
    /\ conns[c].state \in {"connecting", "open"}
    /\ conns' = [conns EXCEPT ![c].timer = IF @ = "armed" THEN "cleared" ELSE @]
    /\ CmStep("connError", "", [NoOut EXCEPT !.conn = c])
    /\ UNCHANGED <<peer, peerId, apiServerUrl, heartbeatInterval, connections,
                   voiceCalls, callbacks, peerObjs, calls, liveIntervals>>

\* The connection after the setTimeout callback of connectToPeer has run:
\* if (!conn.open) conn.close(), which emits nothing for a connection that
\* never opened.
AfterOpenTimeoutNoClose(conn) == [conn EXCEPT !.timer = "fired"]

AfterOpenTimeoutNotifies(conn) ==
    [conn EXCEPT !.timer = "fired",
                 !.state = IF @ # "open" THEN "closed" ELSE @,
                 !.rem = @ \/ conn.state # "open"]

AfterOpenTimeout(conn) ==
    [conn EXCEPT !.timer = "fired",
                 !.state = IF @ # "open" THEN "closed" ELSE @]

OpenTimeout(c) ==
    /\ conns[c].timer = "armed"
    /\ conns' = [conns EXCEPT ![c] = AfterOpenTimeout(conns[c])]
    /\ CmStep("openTimeout", "", NoOut)
    /\ UNCHANGED <<peer, peerId, apiServerUrl, heartbeatInterval, connections,
                   voiceCalls, callbacks, peerObjs, calls, liveIntervals>>

\* sendTo: the value returned. throws: conn.send throws.
SendToReturnsOnThrow(r, throws) == HasOpenSession(r)

SendToReturns(r, throws) == HasOpenSession(r) /\ ~throws

\* sendTo(r, message)
SendTo(r, throws) ==
    /\ throws => HasOpenSession(r)
    /\ CmStep("sendTo", r,
              [NoOut EXCEPT !.ret = SendToReturns(r, throws),
                            !.threw = IF throws THEN {r} ELSE {},
                            !.tried = IF HasOpenSession(r) THEN {connections[r]} ELSE {},
                            !.sent = IF HasOpenSession(r) /\ ~throws
                                     THEN {connections[r]} ELSE {}])
    /\ UNCHANGED <<peer, peerId, apiServerUrl, heartbeatInterval, connections,
                   voiceCalls, callbacks, peerObjs, conns, calls, liveIntervals>>

\* broadcast: the connections conn.send is called on. throwing: the remote
\* ids whose conn.send throws.
BroadcastTriesUntilThrow(throwing) ==
    {connections[r] : r \in {q \in RemoteIds :
        /\ HasOpenSession(q)
        /\ \A t \in throwing : HasOpenSession(t) => connections[q] <= connections[t]}}

BroadcastTries(throwing) ==
    {connections[r] : r \in {q \in RemoteIds : HasOpenSession(q)}}

\* broadcast(message)
Broadcast(throwing) ==
    /\ \A t \in throwing : HasOpenSession(t)
    /\ CmStep("broadcast", "",
              [NoOut EXCEPT !.ret = TRUE,
                            !.threw = throwing,
                            !.tried = BroadcastTries(throwing),
                            !.sent = {c \in BroadcastTries(throwing) :
                                         conns[c].peer \notin throwing}])
    /\ UNCHANGED <<peer, peerId, apiServerUrl, heartbeatInterval, connections,
                   voiceCalls, callbacks, peerObjs, conns, calls, liveIntervals>>

-----------------------------------------------------------------------------
(* ConnectionManager.ts: explicit teardown of sessions.                    *)

\* removeConnection(r): connections.delete and notifyConnectionChange. The
\* connection itself is not touched.
RemoveConnection(r) ==
    /\ connections' = [connections EXCEPT ![r] = 0]
    /\ CmStep("removeConnection", r, [NoOut EXCEPT !.conn = connections[r]])
    /\ UNCHANGED <<peer, peerId, apiServerUrl, heartbeatInterval, voiceCalls,
                   callbacks, peerObjs, conns, calls, liveIntervals>>

\* closeAllConnections(): conn.close() on every connection of the map, then
\* clearConnections. close() of an open connection emits 'close' at once, so
\* the handler of ConnClose runs for it inside this step.
CloseAllConnections ==
    /\ conns' = [c \in ConnIds |->
                  IF c \in {connections[r] : r \in RemoteIds} /\ conns[c].state # "closed"
                  THEN [conns[c] EXCEPT !.state = "closed",
                                        !.rem = @ \/ conns[c].state = "open"]
                  ELSE conns[c]]
    /\ connections' = [r \in RemoteIds |-> 0]
    /\ CmStep("closeAllConnections", "",
              [NoOut EXCEPT !.emitted =
                  {Event("removed", c) :
                      c \in {d \in {connections[r] : r \in RemoteIds} \ {0} :
                                conns[d].state = "open"}}])
    /\ UNCHANGED <<peer, peerId, apiServerUrl, heartbeatInterval, voiceCalls,
                   callbacks, peerObjs, calls, liveIntervals>>

-----------------------------------------------------------------------------
(* ConnectionManager.ts: subscriptions and voice calls.                    *)

\* onConnectionChange, onPeerIdChange, onData, onPlayerRemoved, onCall,
\* onRemoteStream: the callback joins the set of its field
Subscribe(field, f) ==
    /\ f \notin Members(callbacks[field])
    /\ callbacks' = [callbacks EXCEPT ![field] = Append(@, f)]
    /\ CmStep("subscribe", "", NoOut)
    /\ UNCHANGED <<peer, peerId, apiServerUrl, heartbeatInterval, connections,
                   voiceCalls, peerObjs, conns, calls, liveIntervals>>

\* the function each of them returns: the callback leaves the set
Unsubscribe(field, f) ==
    /\ f \in Members(callbacks[field])
    /\ callbacks' = [callbacks EXCEPT ![field] = SelectSeq(@, LAMBDA g : g # f)]
    /\ CmStep("unsubscribe", "", NoOut)
    /\ UNCHANGED <<peer, peerId, apiServerUrl, heartbeatInterval, connections,
                   voiceCalls, peerObjs, conns, calls, liveIntervals>>

\* callPeer(r, stream): this.peer.call, the handlers, voiceCalls.set.
\* fails: peer.call throws, which the catch logs.
CallPeer(r, fails) ==
    /\ IF peer # 0 /\ ~fails
       THEN /\ Len(calls) < MaxCalls
            /\ calls' = Append(calls,
                   [peer |-> r, kind |-> "out", state |-> "connecting", owner |-> peer,
                    err |-> FALSE])
            /\ voiceCalls' = [voiceCalls EXCEPT ![r] = Len(calls) + 1]
       ELSE /\ fails => peer # 0
            /\ UNCHANGED <<calls, voiceCalls>>
    /\ CmStep("callPeer", "", NoOut)
    /\ UNCHANGED <<peer, peerId, apiServerUrl, heartbeatInterval, connections,
                   callbacks, peerObjs, conns, liveIntervals>>

\* peer.on('call') of Peer object i, and answerCall(call, stream) by the
\* subscriber: call.answer opens the call, the handlers, voiceCalls.set
AnswerCall(i, r) ==
    /\ peerObjs[i].state = "open"
    /\ Len(calls) < MaxCalls
    /\ calls' = Append(calls,
           [peer |-> r, kind |-> "in", state |-> "active", owner |-> i,
            err |-> FALSE])
    /\ voiceCalls' = [voiceCalls EXCEPT ![r] = Len(calls) + 1]
    /\ CmStep("answerCall", "", NoOut)
    /\ UNCHANGED <<peer, peerId, apiServerUrl, heartbeatInterval, connections,
                   callbacks, peerObjs, conns, liveIntervals>>

\* The remote peer answers an outbound call: the call is open from then on.
CallAnswered(k) ==
    /\ calls[k].state = "connecting"
    /\ calls' = [calls EXCEPT ![k].state = "active"]
    /\ CmStep("callAnswered", "", NoOut)
    /\ UNCHANGED <<peer, peerId, apiServerUrl, heartbeatInterval, connections,
                   voiceCalls, callbacks, peerObjs, conns, liveIntervals>>

\* call.on('close'): voiceCalls.delete. The transport emits 'close' when an
\* open call closes. out.conn of the steps on calls: the call the entry of
\* the peer held before.
CallClose(k) ==
    /\ calls[k].state = "active"
    /\ calls' = [calls EXCEPT ![k].state = "closed"]
    /\ voiceCalls' = [voiceCalls EXCEPT ![calls[k].peer] = 0]
    /\ CmStep("callClose", calls[k].peer,
              [NoOut EXCEPT !.conn = voiceCalls[calls[k].peer]])
    /\ UNCHANGED <<peer, peerId, apiServerUrl, heartbeatInterval, connections,
                   callbacks, peerObjs, conns, liveIntervals>>

\* call.on('error'): a log line
CallErrorLogsOnly(k) ==
    /\ calls[k].state \in {"connecting", "active"}
    /\ calls' = [calls EXCEPT ![k].err = TRUE]
    /\ UNCHANGED voiceCalls
    /\ CmStep("callError", calls[k].peer,
              [NoOut EXCEPT !.conn = voiceCalls[calls[k].peer]])
    /\ UNCHANGED <<peer, peerId, apiServerUrl, heartbeatInterval, connections,
                   callbacks, peerObjs, conns, liveIntervals>>

\* call.on('error'): voiceCalls.delete. err of the call: it has raised
\* 'error', which by itself does not close it.
CallError(k) ==
    /\ calls[k].state \in {"connecting", "active"}
    /\ calls' = [calls EXCEPT ![k].err = TRUE]
    /\ voiceCalls' = [voiceCalls EXCEPT ![calls[k].peer] = 0]
    /\ CmStep("callError", calls[k].peer,
              [NoOut EXCEPT !.conn = voiceCalls[calls[k].peer]])
    /\ UNCHANGED <<peer, peerId, apiServerUrl, heartbeatInterval, connections,
                   callbacks, peerObjs, conns, liveIntervals>>

\* closeCall(r): call.close() and voiceCalls.delete when the map has a call
CloseCall(r) ==
    /\ IF voiceCalls[r] # 0
       THEN /\ calls' = [calls EXCEPT ![voiceCalls[r]].state = "closed"]
            /\ voiceCalls' = [voiceCalls EXCEPT ![r] = 0]
       ELSE UNCHANGED <<calls, voiceCalls>>
    /\ CmStep("closeCall", r, [NoOut EXCEPT !.conn = voiceCalls[r]])
    /\ UNCHANGED <<peer, peerId, apiServerUrl, heartbeatInterval, connections,
                   callbacks, peerObjs, conns, liveIntervals>>

\* closeAllCalls(): call.close() on every call of the map, voiceCalls.clear
CloseAllCalls ==
    /\ calls' = [k \in CallIds |->
                  IF \E r \in RemoteIds : voiceCalls[r] = k
                  THEN [calls[k] EXCEPT !.state = "closed"] ELSE calls[k]]
    /\ voiceCalls' = [r \in RemoteIds |-> 0]
    /\ CmStep("closeAllCalls", "",
              [NoOut EXCEPT !.tried = {voiceCalls[r] : r \in RemoteIds} \ {0}])
    /\ UNCHANGED <<peer, peerId, apiServerUrl, heartbeatInterval, connections,
                   callbacks, peerObjs, conns, liveIntervals>>

-----------------------------------------------------------------------------
(* The specifications of the orchestrator.                                 *)

Init ==
    /\ InitRegistry
    /\ step = Step("init", "")
    /\ client = NoClient
    /\ InitManager
    /\ app = NoApp

\* What the session layer does between the calls of the application: the
\* identity, the attempts, the transport's events and destroy().
NextSessions ==
    \/ InitializePeer("url")
    \/ \E i \in 1 .. Len(peerObjs) : PeerOpen(i)
    \/ Destroy
    \/ \E r \in RemoteIds, fails \in BOOLEAN : ConnectToPeer(r, fails)
    \/ \E i \in 1 .. Len(peerObjs), r \in RemoteIds : InboundConnection(i, r)
    \/ \E c \in ConnIds : ConnOpen(c)
    \/ \E c \in ConnIds : ConnClose(c)
    \/ \E c \in ConnIds : ConnError(c)
    \/ \E c \in ConnIds : OpenTimeout(c)

\* Sessions and the data they deliver.
Next ==
    \/ NextSessions
    \/ \E c \in ConnIds, throwing \in SUBSET Members(callbacks["dataCallbacks"]) :
           ConnData(c, throwing)

Spec == Init /\ [][Next]_vars

\* Sessions and the two ways to send.
NextSend ==
    \/ NextSessions
    \/ \E r \in RemoteIds, throws \in BOOLEAN : SendTo(r, throws)
    \/ \E throwing \in SUBSET RemoteIds : Broadcast(throwing)

SpecSend == Init /\ [][NextSend]_vars

\* Sessions and their explicit teardown.
NextTeardown ==
    \/ NextSessions
    \/ \E r \in RemoteIds : RemoveConnection(r)
    \/ CloseAllConnections

SpecTeardown == Init /\ [][NextTeardown]_vars

\* One session, the data subscribers and the payloads that arrive.
NextData ==
    \/ InitializePeer("url")
    \/ \E i \in 1 .. Len(peerObjs) : PeerOpen(i)
    \/ Destroy
    \/ \E r \in RemoteIds : ConnectToPeer(r, FALSE)
    \/ \E c \in ConnIds : ConnOpen(c)
    \/ \E c \in ConnIds : ConnClose(c)
    \/ \E f \in DataSubscribers : Subscribe("dataCallbacks", f)
    \/ \E f \in DataSubscribers : Unsubscribe("dataCallbacks", f)
    \/ \E c \in ConnIds, throwing \in SUBSET Members(callbacks["dataCallbacks"]) :
           ConnData(c, throwing)

SpecData == Init /\ [][NextData]_vars

\* The remote peer of the life cycle's sessions and calls.
LifecycleRemotes == {"p1"}

\* Outbound attempts in one run of the life cycle.
MaxLifecycleConns == 1

\* Calls, made and answered, in one run of the life cycle.
MaxLifecycleCalls == 1

\* The life cycle of the orchestrator: identity, heartbeat timer,
\* subscriptions, one session, calls and destroy().
NextLifecycle ==
    \/ \E url \in {"", "url"} : InitializePeer(url)
    \/ \E i \in 1 .. Len(peerObjs) : PeerOpen(i)
    \/ HeartbeatTimer
    \/ Destroy
    \/ \E field \in CallbackFields, f \in Callbacks : Subscribe(field, f)
    \/ \E r \in LifecycleRemotes :
           Len(conns) < MaxLifecycleConns /\ ConnectToPeer(r, FALSE)
    \/ \E c \in ConnIds : ConnOpen(c)
    \/ \E c \in ConnIds : ConnClose(c)
    \/ \E r \in LifecycleRemotes :
           Len(calls) < MaxLifecycleCalls /\ CallPeer(r, FALSE)
    \/ \E i \in 1 .. Len(peerObjs), r \in LifecycleRemotes :
           Len(calls) < MaxLifecycleCalls /\ AnswerCall(i, r)
    \/ \E k \in CallIds : CallAnswered(k)
    \/ \E k \in CallIds : CallClose(k)
    \/ \E r \in LifecycleRemotes : CloseCall(r)
    \/ CloseAllCalls

SpecLifecycle == Init /\ [][NextLifecycle]_vars

\* The voice calls of the orchestrator: calls made and answered, the
\* transport's events on them, closeCall, closeAllCalls and destroy().
NextCalls ==
    \/ InitializePeer("url")
    \/ \E i \in 1 .. Len(peerObjs) : PeerOpen(i)
    \/ Destroy
    \/ \E r \in RemoteIds, fails \in BOOLEAN : CallPeer(r, fails)
    \/ \E i \in 1 .. Len(peerObjs), r \in RemoteIds : AnswerCall(i, r)
    \/ \E k \in CallIds : CallAnswered(k)
    \/ \E k \in CallIds : CallClose(k)
    \/ \E k \in CallIds : CallError(k)
    \/ \E r \in RemoteIds : CloseCall(r)
    \/ CloseAllCalls

SpecCalls == Init /\ [][NextCalls]_vars

\* The heartbeat timer of the orchestrator: identity, startHeartbeat and
\* stopHeartbeat called at any time, the ticks of the timer and destroy().
NextTimer ==
    \/ \E url \in {"", "url"} : InitializePeer(url)
    \/ \E i \in 1 .. Len(peerObjs) : PeerOpen(i)
    \/ HeartbeatTimer
    \/ StartHeartbeat
    \/ StopHeartbeat
    \/ Destroy

SpecTimer == Init /\ [][NextTimer]_vars

-----------------------------------------------------------------------------
(* One client of the registry: the heartbeat timer of startHeartbeat and   *)
(* its requests, against the handlers and the sweep of server.js.          *)

\* startHeartbeat(intervalMs = 10000), and heartbeatInterval: 10000 of the page
HEARTBEAT_INTERVAL == 10000

\* AbortSignal.timeout(3000) of sendHeartbeat
HEARTBEAT_ABORT == 3000

\* The clock of this specification advances in steps of a third of the abort
\* time, so that a request can arrive at once, late, and at the abort time.
HbQuantum == HEARTBEAT_ABORT \div 3

\* The run ends after MaxHbTicks steps of the clock: time for an opening in
\* the first sweep interval, three heartbeat intervals and a late arrival.
MaxHbTicks == 45

\* The one client, and the name it registers.
HbPeer == "p1"

HbUser == "alice"

\* setInterval: the time of the tick after the one at t
HeartbeatDueSlow(t) == t + USER_TIMEOUT

HeartbeatDue(t) == t + HEARTBEAT_INTERVAL

HbStep(op) ==
    /\ step' = Step(op, HbPeer)
    /\ UNCHANGED <<now, cmVars, app>>

\* peer.on('open') of the page: startHeartbeat arms the timer and sends the
\* first heartbeat, onOpen registers the peer
ClientOpen ==
    /\ client.state = "off"
    /\ now < HEARTBEAT_CHECK_INTERVAL
    /\ PostRegister(HbPeer, HbUser)
    /\ client' = [client EXCEPT !.state = "on", !.timerDue = HeartbeatDue(now),
                                !.flight = now, !.present = TRUE]
    /\ HbStep("clientOpen")

\* the setInterval callback: sendHeartbeat, the request goes out
HbSend ==
    /\ client.state = "on"
    /\ now = client.timerDue
    /\ client.flight = -1
    /\ client' = [client EXCEPT !.timerDue = HeartbeatDue(now), !.flight = now]
    /\ HbStep("hbSend")
    /\ UNCHANGED regVars

\* The request reaches the registry before the client aborts it.
HbDeliver ==
    /\ client.flight # -1
    /\ now <= client.flight + HEARTBEAT_ABORT
    /\ PostHeartbeat(HbPeer)
    /\ client' = [client EXCEPT !.flight = -1, !.missed = 0,
                                !.missedBefore = client.missed,
                                !.present = HeartbeatKnown(HbPeer),
                                !.presentBefore = client.present,
                                !.sweeps = 0,
                                !.sweepsBefore = client.sweeps]
    /\ HbStep("heartbeat")

\* The request never reaches the registry: a missed heartbeat. The catch of
\* sendHeartbeat ignores the failure.
HbLost ==
    /\ client.flight # -1
    /\ client' = [client EXCEPT !.flight = -1, !.missed = @ + 1]
    /\ HbStep("hbLost")
    /\ UNCHANGED regVars

HbSweep ==
    /\ SweepTick
    /\ client' = [client EXCEPT !.sweeps = IF client.state = "on" THEN 1 ELSE 0]
    /\ HbStep("sweep")

\* Time passes; whatever is due (the sweep, the heartbeat timer, the abort
\* of a request in flight) happens before the clock moves on.
HbTick ==
    /\ now + HbQuantum <= MaxHbTicks * HbQuantum
    /\ now + HbQuantum <= sweepDue
    /\ client.state = "on" => now + HbQuantum <= client.timerDue
    /\ client.flight # -1 => now + HbQuantum <= client.flight + HEARTBEAT_ABORT
    /\ now' = now + HbQuantum
    /\ response' = NoResponse
    /\ step' = Step("tick", "")
    /\ UNCHANGED <<onlineUsers, sweepDue, hist, client, cmVars, app>>

NextHeartbeat ==
    \/ ClientOpen
    \/ HbSend
    \/ HbDeliver
    \/ HbLost
    \/ HbSweep
    \/ HbTick

SpecHeartbeat == Init /\ [][NextHeartbeat]_vars

\* The heartbeat client, and register requests for its peer id that reach
\* the registry at any time: the page sends one from the 'open' of a Peer
\* only, never from its heartbeat.
NextRejoin ==
    \/ NextHeartbeat
    \/ Register(HbPeer, HbUser)

SpecRejoin == Init /\ [][NextRejoin]_vars

-----------------------------------------------------------------------------
(* Discovery: the page polls the registry and opens a session to every     *)
(* listed peer it has none with, while the remote peers register,          *)
(* unregister and stop their heartbeats.                                   *)

\* A step of the page: it changes app and leaves the server alone unless the
\* action says otherwise.
AppStep(op, arg, o) ==
    /\ step' = Step(op, arg)
    /\ out' = o
    /\ UNCHANGED <<now, client>>

\* hasConnection(r)
HasConnection(r) == connections[r] # 0

\* The Session map after fetchOnlineUsers has handled a response that
\* lists the peers of listed.
AfterFetchOnlineUsersPruned(m, listed) ==
    [r \in RemoteIds |-> IF r \in listed THEN m[r] ELSE 0]

AfterFetchOnlineUsers(m, listed) == m

\* fetchOnlineUsers: GET /api/users, and for every user of the response
\* that has no entry in the Session map a timer that will call connectToPeer.
\* The registry of this specification holds the remote peers only, so the
\* filter on the own peerId drops nothing. fails: the request fails or is
\* aborted, which the catch ignores.
FetchOnlineUsers(fails) ==
    /\ IF peer # 0 /\ peerObjs[peer].state # "destroyed" /\ ~fails
       THEN /\ GetUsers
            /\ connections' = AfterFetchOnlineUsers(connections,
                                   {u.peerId : u \in ListPeers})
            /\ app' = [app EXCEPT !.scheduled =
                           @ \cup {u.peerId : u \in {v \in ListPeers :
                                                       ~HasConnection(v.peerId)}}]
       ELSE UNCHANGED <<regVars, connections, app>>
    /\ AppStep("fetchOnlineUsers", "", NoOut)
    /\ UNCHANGED <<peer, peerId, apiServerUrl, heartbeatInterval, voiceCalls,
                   callbacks, peerObjs, conns, calls, liveIntervals>>

\* the setTimeout callback of fetchOnlineUsers: connectToPeer(r)
ScheduledConnect(r) ==
    /\ r \in app.scheduled
    /\ app' = [app EXCEPT !.scheduled = @ \ {r}]
    /\ ConnectAttempt(r, FALSE)
    /\ AppStep("scheduledConnect", r, NoOut)
    /\ UNCHANGED regVars

\* The name the remote peers register under.
RemoteUser == "alice"

\* The remote peer that registers in this specification.
DiscoveryRemotes == {"p1"}

\* Peer objects the page makes in one run of this specification.
MaxDiscoveryPeers == 1

NextDiscovery ==
    \/ \E p \in DiscoveryRemotes : Register(p, RemoteUser)
    \/ \E p \in DiscoveryRemotes : Unregister(p)
    \/ Sweep
    \/ Tick
    \/ Len(peerObjs) < MaxDiscoveryPeers /\ InitializePeer("url")
    \/ \E i \in 1 .. Len(peerObjs) : PeerOpen(i)
    \/ Destroy
    \/ \E fails \in BOOLEAN : FetchOnlineUsers(fails)
    \/ \E r \in RemoteIds : ScheduledConnect(r)
    \/ \E c \in ConnIds : ConnOpen(c)
    \/ \E c \in ConnIds : ConnClose(c)

SpecDiscovery == Init /\ [][NextDiscovery]_vars

-----------------------------------------------------------------------------
(* The pipelines of two remote peers side by side: sessions, sends and     *)
(* calls of one Peer object.                                               *)

NextPipelines ==
    \/ Len(peerObjs) < MaxDiscoveryPeers /\ InitializePeer("url")
    \/ \E i \in 1 .. Len(peerObjs) : PeerOpen(i)
    \/ \E r \in RemoteIds : ConnectToPeer(r, FALSE)
    \/ \E i \in 1 .. Len(peerObjs), r \in RemoteIds : InboundConnection(i, r)
    \/ \E c \in ConnIds : ConnOpen(c)
    \/ \E c \in ConnIds : ConnData(c, {})
    \/ \E c \in ConnIds : ConnClose(c)
    \/ \E c \in ConnIds : ConnError(c)
    \/ \E c \in ConnIds : OpenTimeout(c)
    \/ \E r \in RemoteIds, throws \in BOOLEAN : SendTo(r, throws)
    \/ \E r \in RemoteIds : CallPeer(r, FALSE)
    \/ \E i \in 1 .. Len(peerObjs), r \in RemoteIds : AnswerCall(i, r)
    \/ \E k \in CallIds : CallAnswered(k)
    \/ \E k \in CallIds : CallClose(k)
    \/ \E k \in CallIds : CallError(k)

SpecPipelines == Init /\ [][NextPipelines]_vars

\* The outbound attempts of one Peer object in time: the transport opens
\* an attempt, reports an error on it or closes it, or does none of these;
\* the setTimeout callback of connectToPeer runs once its time has come,
\* unless clearTimeout has taken it away.
NextAttempts ==
    \/ Len(peerObjs) < MaxDiscoveryPeers /\ InitializePeer("url")
    \/ \E i \in 1 .. Len(peerObjs) : PeerOpen(i)
    \/ \E r \in RemoteIds : ConnectToPeer(r, FALSE)
    \/ \E c \in ConnIds : ConnOpen(c)
    \/ \E c \in ConnIds : ConnClose(c)
    \/ \E c \in ConnIds : ConnError(c)
    \/ \E c \in ConnIds : OpenTimeout(c)

\* An armed timer fires.
TimersFire == \A c \in 1 .. MaxConns : WF_vars(c \in ConnIds /\ OpenTimeout(c))

SpecAttempts == Init /\ [][NextAttempts]_vars /\ TimersFire

-----------------------------------------------------------------------------
(* The requests of one client in time: the heartbeat timer of the class    *)
(* and the users poll of GameWorld, each request in flight until it is     *)
(* answered, fails or is aborted.                                          *)

\* setInterval(fetchOnlineUsers, 3000) of GameWorld
FETCH_INTERVAL == 3000

\* setTimeout(fetchOnlineUsers, 500) of GameWorld
FETCH_FIRST == 500

\* AbortSignal.timeout(5000) of fetchOnlineUsers
FETCH_ABORT == 5000

\* The clock of this specification advances in steps of the first fetch delay.
PollQuantum == FETCH_FIRST

\* The run ends after MaxPollTicks steps of the clock: time for the heartbeat
\* of the 'open', the one of the first timer tick, and their answers.
MaxPollTicks == 27

\* The abort time of a request.
AbortAfter(q) == IF q.kind = "heartbeat" THEN HEARTBEAT_ABORT ELSE FETCH_ABORT

Request(kind) == [kind |-> kind, sentAt |-> now]

\* A step of this specification
PollStep(op, arg, hb) ==
    /\ step' = Step(op, arg)
    /\ out' = [NoOut EXCEPT !.hb = hb]
    /\ UNCHANGED now

\* peer.on('open'): startHeartbeat arms the timer and sends the first
\* heartbeat, and onOpen of the page registers the peer
PollOpen(i) ==
    /\ PeerOpenFields(i)
    /\ PostRegister(HbPeer, HbUser)
    /\ client' = [client EXCEPT !.state = "on", !.timerDue = HeartbeatDue(now)]
    /\ app' = [app EXCEPT !.requests =
                   IF apiServerUrl # "" /\ HeartbeatGoesOut(i, i, apiServerUrl)
                   THEN @ \cup {Request("heartbeat")} ELSE @]
    /\ PollStep("peerOpen", "", apiServerUrl # "" /\ HeartbeatGoesOut(i, i, apiServerUrl))

\* the setInterval callback of startHeartbeat, when it is due: sendHeartbeat
PollHeartbeat ==
    /\ liveIntervals > 0
    /\ now = client.timerDue
    /\ client' = [client EXCEPT !.timerDue = HeartbeatDue(now)]
    /\ app' = [app EXCEPT !.requests =
                   IF HeartbeatGoesOut(peerId, peer, apiServerUrl)
                   THEN @ \cup {Request("heartbeat")} ELSE @]
    /\ PollStep("heartbeatTimer", "", HeartbeatGoesOut(peerId, peer, apiServerUrl))
    /\ UNCHANGED <<regVars, peer, peerId, apiServerUrl, heartbeatInterval, connections,
                   voiceCalls, callbacks, peerObjs, conns, calls, liveIntervals>>

\* How a heartbeat request ends. delivered: it reaches the registry, which
\* answers 200 or 404; otherwise the fetch rejects, at the abort time with
\* a TimeoutError and before it with a network error. sendHeartbeat looks at
\* neither the response nor the error.
HeartbeatOutcome(q, delivered) ==
    IF delivered
    THEN IF HeartbeatKnown(HbPeer) THEN "ok" ELSE "notFound"
    ELSE IF now = q.sentAt + HEARTBEAT_ABORT THEN "timeout" ELSE "failed"

\* the await of sendHeartbeat returns or throws
HeartbeatSettles(q, delivered) ==
    /\ q \in app.requests
    /\ q.kind = "heartbeat"
    /\ IF delivered THEN PostHeartbeat(HbPeer) ELSE UNCHANGED regVars
    /\ app' = [app EXCEPT !.requests = @ \ {q}]
    /\ client' = [client EXCEPT !.missed =
                      IF HeartbeatOutcome(q, delivered) = "ok" THEN 0 ELSE 1]
    /\ PollStep("heartbeatSettled", HeartbeatOutcome(q, delivered), FALSE)
    /\ UNCHANGED <<peer, peerId, apiServerUrl, heartbeatInterval, connections,
                   voiceCalls, callbacks, peerObjs, conns, calls, liveIntervals>>

\* GameWorld mounts, once the page has a player: its effect sets the timer
\* of the first fetch and the interval of the poll
MountGameWorld ==
    /\ ~app.mounted
    /\ peerId # 0
    /\ app' = [app EXCEPT !.mounted = TRUE, !.firstDue = now + FETCH_FIRST,
                          !.pollDue = now + FETCH_INTERVAL]
    /\ PollStep("mount", "", FALSE)
    /\ UNCHANGED <<regVars, client, peer, peerId, apiServerUrl, heartbeatInterval,
                   connections, voiceCalls, callbacks, peerObjs, conns, calls,
                   liveIntervals>>

\* fetchOnlineUsers, called by a timer of GameWorld that is due: past its
\* guard the request goes out
PollFetch ==
    /\ app.mounted
    /\ now \in {app.firstDue, app.pollDue}
    /\ app' = [app EXCEPT
                   !.firstDue = IF now = @ THEN -1 ELSE @,
                   !.pollDue = IF now = @ THEN now + FETCH_INTERVAL ELSE @,
                   !.requests = IF peer # 0 /\ peerObjs[peer].state # "destroyed"
                                THEN @ \cup {Request("users")} ELSE @]
    /\ PollStep("fetchOnlineUsers", "", FALSE)
    /\ UNCHANGED <<regVars, client, peer, peerId, apiServerUrl, heartbeatInterval,
                   connections, voiceCalls, callbacks, peerObjs, conns, calls,
                   liveIntervals>>

\* the await of fetchOnlineUsers returns or throws. delivered: the registry
\* answers with its list, from which the page drops its own peer and sets a
\* connectToPeer timer for every other peer it has no Session entry for.
FetchSettles(q, delivered) ==
    /\ q \in app.requests
    /\ q.kind = "users"
    /\ IF delivered THEN GetUsers ELSE UNCHANGED regVars
    /\ app' = [app EXCEPT
                   !.requests = @ \ {q},
                   !.scheduled =
                       IF delivered
                       THEN @ \cup {u.peerId : u \in {v \in ListPeers :
                                        v.peerId # HbPeer /\ ~HasConnection(v.peerId)}}
                       ELSE @]
    /\ PollStep("fetchSettled", IF delivered THEN "ok" ELSE "failed", FALSE)
    /\ UNCHANGED <<client, peer, peerId, apiServerUrl, heartbeatInterval, connections,
                   voiceCalls, callbacks, peerObjs, conns, calls, liveIntervals>>

\* Time passes; whatever is due (a timer, the abort of a request in
\* flight) happens before the clock moves on. The clock starts at the 'open'.
PollTick ==
    /\ client.state = "on"
    /\ now + PollQuantum <= MaxPollTicks * PollQuantum
    /\ liveIntervals > 0 => now + PollQuantum <= client.timerDue
    /\ app.firstDue # -1 => now + PollQuantum <= app.firstDue
    /\ app.pollDue # -1 => now + PollQuantum <= app.pollDue
    /\ \A q \in app.requests : now + PollQuantum <= q.sentAt + AbortAfter(q)
    /\ now' = now + PollQuantum
    /\ response' = NoResponse
    /\ step' = Step("tick", "")
    /\ out' = NoOut
    /\ UNCHANGED <<onlineUsers, sweepDue, hist, client, app, peer, peerId,
                   apiServerUrl, heartbeatInterval, connections, voiceCalls, callbacks,
                   peerObjs, conns, calls, liveIntervals>>

\* The remote peer of this specification.
PollRemote == "p2"

NextPolling ==
    \/ Len(peerObjs) < MaxDiscoveryPeers /\ InitializePeer("url")
    \/ Len(conns) < MaxLifecycleConns /\ ConnectToPeer(PollRemote, FALSE)
    \/ \E c \in ConnIds : ConnOpen(c)
    \/ \E i \in 1 .. Len(peerObjs) : PollOpen(i)
    \/ PollHeartbeat
    \/ \E q \in app.requests, delivered \in BOOLEAN : HeartbeatSettles(q, delivered)
    \/ MountGameWorld
    \/ PollFetch
    \/ \E q \in app.requests, delivered \in BOOLEAN : FetchSettles(q, delivered)
    \/ Unregister(HbPeer)
    \/ Destroy
    \/ PollTick

SpecPolling == Init /\ [][NextPolling]_vars

-----------------------------------------------------------------------------
(* The voice room of the page: VoicePanel calls the peers the store lists  *)
(* as members of the room, and keeps the list from the voice-join and      *)
(* voice-leave payloads it receives.                                       *)

\* The one voice room of this specification.
RoomId == "room1"

\* callPeer for each peer of callees, in order: the calls made and the
\* VoiceCall map after them. this.peer is the same for all of them.
CallsMade(callees) ==
    IF peer = 0 THEN <<>>
    ELSE [n \in 1 .. Len(callees) |->
             [peer |-> callees[n], kind |-> "out", state |-> "connecting",
              owner |-> peer, err |-> FALSE]]

VoiceCallsAfter(callees) ==
    IF peer = 0 THEN voiceCalls
    ELSE [r \in RemoteIds |->
             IF \E n \in 1 .. Len(callees) : callees[n] = r
             THEN Len(calls) + CHOOSE n \in 1 .. Len(callees) : callees[n] = r
             ELSE voiceCalls[r]]

\* The peers handleEnterVoiceRoom calls: the stored members of the room
\* other than this peer, which the model does not keep in members.
EnterCallees(members) == members

\* The user walks into the room: handleVoiceRoomChange of GameWorld sets
\* currentVoiceRoom, and the effect of VoicePanel runs handleEnterVoiceRoom,
\* which enables the microphone and calls the members of the room.
EnterVoiceRoom ==
    /\ app.room = ""
    /\ Len(calls) + Len(CallsMade(EnterCallees(app.members))) <= MaxCalls
    /\ app' = [app EXCEPT !.room = RoomId]
    /\ calls' = calls \o CallsMade(EnterCallees(app.members))
    /\ voiceCalls' = VoiceCallsAfter(EnterCallees(app.members))
    /\ AppStep("enterVoiceRoom", "", NoOut)
    /\ UNCHANGED <<regVars, peer, peerId, apiServerUrl, heartbeatInterval,
                   connections, callbacks, peerObjs, conns, liveIntervals>>

\* The user walks out: handleLeaveVoiceRoom does closeAllCalls and disables
\* the microphone.
LeaveVoiceRoom ==
    /\ app.room # ""
    /\ app' = [app EXCEPT !.room = ""]
    /\ calls' = [k \in CallIds |->
                  IF \E r \in RemoteIds : voiceCalls[r] = k
                  THEN [calls[k] EXCEPT !.state = "closed"] ELSE calls[k]]
    /\ voiceCalls' = [r \in RemoteIds |-> 0]
    /\ AppStep("leaveVoiceRoom", "", NoOut)
    /\ UNCHANGED <<regVars, peer, peerId, apiServerUrl, heartbeatInterval,
                   connections, callbacks, peerObjs, conns, liveIntervals>>

\* conn.on('data') with a voice-join payload for the room: the onData
\* subscriber of VoicePanel adds the sender to the room and, if this peer is
\* in the room with its microphone on, calls the sender.
VoiceJoin(c) ==
    /\ conns[c].state = "open"
    /\ app.room # "" => Len(calls) < MaxCalls
    /\ app' = [app EXCEPT !.members =
                   IF conns[c].peer \in Members(@) THEN @ ELSE Append(@, conns[c].peer)]
    /\ calls' = IF app.room # "" THEN calls \o CallsMade(<<conns[c].peer>>) ELSE calls
    /\ voiceCalls' = IF app.room # "" THEN VoiceCallsAfter(<<conns[c].peer>>)
                                       ELSE voiceCalls
    /\ AppStep("voiceJoin", conns[c].peer, NoOut)
    /\ UNCHANGED <<regVars, peer, peerId, apiServerUrl, heartbeatInterval,
                   connections, callbacks, peerObjs, conns, liveIntervals>>

\* conn.on('data') with a voice-leave payload for the room: the subscriber
\* removes the sender from the room and does closeCall(sender).
VoiceLeave(c) ==
    /\ conns[c].state = "open"
    /\ app' = [app EXCEPT !.members = SelectSeq(@, LAMBDA m : m # conns[c].peer)]
    /\ IF voiceCalls[conns[c].peer] # 0
       THEN /\ calls' = [calls EXCEPT ![voiceCalls[conns[c].peer]].state = "closed"]
            /\ voiceCalls' = [voiceCalls EXCEPT ![conns[c].peer] = 0]
       ELSE UNCHANGED <<calls, voiceCalls>>
    /\ AppStep("voiceLeave", conns[c].peer, NoOut)
    /\ UNCHANGED <<regVars, peer, peerId, apiServerUrl, heartbeatInterval,
                   connections, callbacks, peerObjs, conns, liveIntervals>>

\* Sessions come and go while the page keeps the room.
NextVoice ==
    \/ Len(peerObjs) < MaxDiscoveryPeers /\ InitializePeer("url")
    \/ \E i \in 1 .. Len(peerObjs) : PeerOpen(i)
    \/ \E r \in RemoteIds : ConnectToPeer(r, FALSE)
    \/ \E c \in ConnIds : ConnOpen(c)
    \/ \E c \in ConnIds : ConnClose(c)
    \/ EnterVoiceRoom
    \/ LeaveVoiceRoom
    \/ \E c \in ConnIds : VoiceJoin(c)
    \/ \E c \in ConnIds : VoiceLeave(c)
    \/ \E k \in CallIds : CallAnswered(k)
    \/ \E k \in CallIds : CallClose(k)

SpecVoice == Init /\ [][NextVoice]_vars

-----------------------------------------------------------------------------
(* The dispatch of an inbound payload: handleIncomingData of the page, and *)
(* the three onData subscribers of GameWorld, VoicePanel and ChatPanel.    *)

\* The values a field of a payload can have: "undefined" for a field that
\* is not there.
TypeValues ==
    {"undefined", "", "join", "position", "leave", "voice-join", "voice-leave",
     "other"}

TextValues == {"undefined", "", "hi"}

\* What arrives: an object, the JSON string of one, or a string that is not
\* JSON.
Payloads ==
    {[enc |-> e, type |-> t, text |-> x] :
        e \in {"object", "json"}, t \in TypeValues, x \in TextValues}
    \cup {[enc |-> "garbage", type |-> "undefined", text |-> "undefined"]}

\* typeof data === 'string' ? JSON.parse(data) : data. JSON.parse throws
\* on a string that is not JSON, which the catch of every handler takes.
ParseThrows(d) == d.enc = "garbage"

\* The test JavaScript makes of a string field in a condition.
Truthy(v) == v # "undefined" /\ v # ""

IsGameUpdate(d) == Truthy(d.type) /\ d.type \in {"join", "position", "leave"}

IsVoiceUpdate(d) == Truthy(d.type) /\ d.type \in {"voice-join", "voice-leave"}

\* The chat test of the onData subscriber of ChatPanel
IsChat(d) == Truthy(d.text) /\ ~Truthy(d.type)

\* handleIncomingData of the page: the handlers its if / else if chain calls
PageHandlers(d) ==
    IF ParseThrows(d) THEN {}
    ELSE IF IsGameUpdate(d) THEN {"game"}
    ELSE IF IsVoiceUpdate(d) THEN {"voice"}
    ELSE IF Truthy(d.text) THEN {"chat"}
    ELSE {}

\* The three subscribers: each makes its own test of the payload
PanelHandlers(d) ==
    IF ParseThrows(d) THEN {}
    ELSE (IF IsGameUpdate(d) THEN {"game"} ELSE {})
         \cup (IF IsVoiceUpdate(d) THEN {"voice"} ELSE {})
         \cup (IF IsChat(d) THEN {"chat"} ELSE {})

\* conn.on('data') of the page: handleIncomingData(data, peerId)
HandleIncomingData ==
    /\ app' = [app EXCEPT !.handled = PageHandlers(app.data)]
    /\ AppStep("handleIncomingData", "", NoOut)
    /\ UNCHANGED <<regVars, peer, peerId, apiServerUrl, heartbeatInterval,
                   connections, voiceCalls, callbacks, peerObjs, conns, calls,
                   liveIntervals>>

\* notifyDataCallbacks with the subscribers of the three panels
PanelsOnData ==
    /\ app' = [app EXCEPT !.handled = PanelHandlers(app.data)]
    /\ AppStep("panelsOnData", "", NoOut)
    /\ UNCHANGED <<regVars, peer, peerId, apiServerUrl, heartbeatInterval,
                   connections, voiceCalls, callbacks, peerObjs, conns, calls,
                   liveIntervals>>

InitDispatch ==
    /\ InitRegistry
    /\ step = Step("init", "")
    /\ client = NoClient
    /\ InitManager
    /\ app \in {[NoApp EXCEPT !.data = d] : d \in Payloads}

NextDispatch ==
    \/ HandleIncomingData
    \/ PanelsOnData

SpecDispatch == InitDispatch /\ [][NextDispatch]_vars

-----------------------------------------------------------------------------
(* The players of GameWorld: the onData subscriber that takes the game     *)
(* updates, the onPlayerRemoved subscriber, and the otherPlayers map of    *)
(* the store.                                                              *)

\* The game updates that can arrive. peerId is the field of that name in
\* the payload, "undefined" if it has none; position is -1 for a payload
\* without one; complete: username and character are there.
Updates ==
    {[type |-> t, peerId |-> p, position |-> x, complete |-> b] :
        t \in {"join", "position", "leave"}, p \in PeerIds \cup {"undefined"},
        x \in {-1, 0, 1}, b \in BOOLEAN}

\* The key handleGameUpdate reads and writes otherPlayers under
PlayerKeyFromPayload(u, from) == IF u.peerId \in PeerIds THEN u.peerId ELSE from

PlayerKey(u, from) == from

\* handleGameUpdate(update, fromPeerId): otherPlayers after it
AfterGameUpdate(players, u, from) ==
    LET key == PlayerKey(u, from) IN
    CASE u.type = "join" ->
             IF u.complete /\ u.position # -1
             THEN [players EXCEPT ![key] = [peerId |-> key, position |-> u.position]]
             ELSE players
      [] u.type = "position" ->
             IF u.position # -1 /\ players[key] # NoPlayer
             THEN [players EXCEPT ![key].position = u.position]
             ELSE players
      [] u.type = "leave" -> [players EXCEPT ![key] = NoPlayer]

\* conn.on('data') with a game update: the onData subscriber of GameWorld
\* calls handleGameUpdate with the peer of the connection. name and was of
\* the step: the type and the peerId field of the payload.
GameUpdate(c, u) ==
    /\ conns[c].state = "open"
    /\ app' = [app EXCEPT !.players = AfterGameUpdate(@, u, conns[c].peer)]
    /\ step' = [Step("gameUpdate", conns[c].peer) EXCEPT
                   !.name = u.type, !.was = u.peerId]
    /\ out' = [NoOut EXCEPT !.emitted = {Event("data", c)}]
    /\ UNCHANGED <<regVars, client, peer, peerId, apiServerUrl, heartbeatInterval,
                   connections, voiceCalls, callbacks, peerObjs, conns, calls,
                   liveIntervals>>

\* conn.on('close'): removeConnection, and notifyPlayerRemovedCallbacks, on
\* which the onPlayerRemoved subscriber of GameWorld does removeOtherPlayer
GameConnClose(c) ==
    /\ conns[c].state = "open"
    /\ conns' = [conns EXCEPT ![c].state = "closed", ![c].rem = TRUE]
    /\ connections' = [connections EXCEPT ![conns[c].peer] = 0]
    /\ app' = [app EXCEPT !.players[conns[c].peer] = NoPlayer]
    /\ AppStep("connClose", conns[c].peer, NoOut)
    /\ UNCHANGED <<regVars, peer, peerId, apiServerUrl, heartbeatInterval,
                   voiceCalls, callbacks, peerObjs, calls, liveIntervals>>

NextGame ==
    \/ Len(peerObjs) < MaxDiscoveryPeers /\ InitializePeer("url")
    \/ \E i \in 1 .. Len(peerObjs) : PeerOpen(i)
    \/ \E r \in RemoteIds : ConnectToPeer(r, FALSE)
    \/ \E c \in ConnIds : ConnOpen(c)
    \/ \E c \in ConnIds, u \in Updates : GameUpdate(c, u)
    \/ \E c \in ConnIds : GameConnClose(c)

SpecGame == Init /\ [][NextGame]_vars

-----------------------------------------------------------------------------
(* The rooms of the store: playersInRooms under addPlayerToRoom,           *)
(* removePlayerFromRoom, clearPlayersInRooms and reset.                    *)

\* The peer ids the store is given: the remote peers and this peer.
RoomPeers == PeerIds \cup {"me"}

\* addPlayerToRoom(roomId, peerId): playersInRooms after it
AfterAddPlayerToRoom(m, room, p) ==
    [m EXCEPT ![room] =
        [has |-> TRUE,
         members |-> (IF m[room].has THEN m[room].members ELSE {}) \cup {p}]]

\* removePlayerFromRoom(roomId, peerId): playersInRooms after it
AfterRemovePlayerFromRoomKeepsKey(m, room, p) ==
    IF m[room].has THEN [m EXCEPT ![room].members = @ \ {p}] ELSE m

AfterRemovePlayerFromRoom(m, room, p) ==
    IF m[room].has
    THEN IF m[room].members \ {p} = {}
         THEN [m EXCEPT ![room] = NoRoom]
         ELSE [m EXCEPT ![room].members = @ \ {p}]
    ELSE m

\* A step of the store: name of the step is the peer id of the call.
StoreStep(op, room, p) ==
    /\ step' = [Step(op, room) EXCEPT !.name = p]
    /\ UNCHANGED <<regVars, client, cmVars>>

AddPlayerToRoom(room, p) ==
    /\ app' = [app EXCEPT !.rooms = AfterAddPlayerToRoom(@, room, p),
                          !.added[room] = @ \cup {p}]
    /\ StoreStep("addPlayerToRoom", room, p)

RemovePlayerFromRoom(room, p) ==
    /\ app' = [app EXCEPT !.rooms = AfterRemovePlayerFromRoom(@, room, p),
                          !.added[room] = @ \ {p}]
    /\ StoreStep("removePlayerFromRoom", room, p)

\* clearPlayersInRooms(): a new Map
ClearPlayersInRooms ==
    /\ app' = [app EXCEPT !.rooms = [room \in RoomIds |-> NoRoom],
                          !.added = [room \in RoomIds |-> {}]]
    /\ StoreStep("clearPlayersInRooms", "", "")

\* reset(): myPlayer and currentVoiceRoom null, otherPlayers and
\* playersInRooms new Maps
Reset ==
    /\ app' = [app EXCEPT !.rooms = [room \in RoomIds |-> NoRoom],
                          !.added = [room \in RoomIds |-> {}],
                          !.players = [r \in PeerIds |-> NoPlayer],
                          !.room = "",
                          !.members = <<>>]
    /\ StoreStep("reset", "", "")

NextRooms ==
    \/ \E room \in RoomIds, p \in RoomPeers : AddPlayerToRoom(room, p)
    \/ \E room \in RoomIds, p \in RoomPeers : RemovePlayerFromRoom(room, p)
    \/ ClearPlayersInRooms
    \/ Reset

SpecRooms == Init /\ [][NextRooms]_vars

-----------------------------------------------------------------------------
(* Properties of the registry.                                             *)

Listed(p) == \E u \in ListPeers : u.peerId = p

Age(p) == now - hist[p].lastSeenAt

\* C2 as stated: a peer is returned by GET /api/users iff it was registered,
\* has not been unregistered since, and now - lastSeenAt <= USER_TIMEOUT.
C2_ListedIffFresh ==
    \A p \in PeerIds :
        Listed(p) <=> (hist[p].registered /\ Age(p) <= USER_TIMEOUT)

\* C2 as amended: a peer is returned by GET /api/users iff it was registered
\* and has since neither been unregistered nor been removed by a sweep tick;
\* it is always returned while now - lastSeenAt <= USER_TIMEOUT, and past
\* that only until the next sweep tick, at most one sweep interval later.
C2_ListedIffRecordKept ==
    \A p \in PeerIds :
        /\ Listed(p) <=> (hist[p].registered /\ ~hist[p].swept)
        /\ (hist[p].registered /\ Age(p) <= USER_TIMEOUT) => Listed(p)
        /\ Listed(p) => Age(p) <= USER_TIMEOUT + HEARTBEAT_CHECK_INTERVAL

\* C2 witness: a peer past the staleness timeout that is still listed, and
\* one that a sweep tick has removed.
C2_Witness ==
    \E p, q \in PeerIds :
        /\ Listed(p) /\ Age(p) > USER_TIMEOUT
        /\ hist[q].registered /\ hist[q].swept /\ ~Listed(q)

\* C3: a sweep tick removes exactly the records whose lastHeartbeat is older
\* than USER_TIMEOUT and keeps every other record as it is, so that no
\* record older than the timeout is left when the tick has run.
C3_SweepCorrect ==
    /\ [][step'.op = "sweep" =>
            onlineUsers' = {e \in onlineUsers : now - e.lastHeartbeat <= USER_TIMEOUT}]_vars
    /\ [](step.op = "sweep" =>
            \A e \in onlineUsers : now - e.lastHeartbeat <= USER_TIMEOUT)

\* C3 witness: a sweep tick has just removed a stale record and kept one
\* that was registered before that tick.
C3_Witness ==
    /\ step.op = "sweep"
    /\ \E p, q \in PeerIds :
        /\ hist[p].swept /\ ~MapHas(onlineUsers, p)
        /\ MapHas(onlineUsers, q) /\ MapGet(onlineUsers, q).lastHeartbeat < now

\* C9: while every heartbeat call for a registered peer came within
\* USER_TIMEOUT of the previous one (or of the registration), and the last
\* one is no older than that, the registry holds exactly one record of the
\* peer and its lastHeartbeat is the time of the last call.
C9_HeartbeatKeepsPresent ==
    \A p \in PeerIds :
        /\ Cardinality({e \in onlineUsers : e.peerId = p}) <= 1
        /\ (hist[p].chain /\ Age(p) <= USER_TIMEOUT) =>
              /\ MapHas(onlineUsers, p)
              /\ MapGet(onlineUsers, p).lastHeartbeat = hist[p].lastSeenAt

\* C9 witness: a heartbeat has just refreshed a peer whose unbroken run of
\* calls began more than a staleness timeout and a sweep interval ago.
C9_Witness ==
    \E p \in PeerIds :
        /\ hist[p].chain /\ MapHas(onlineUsers, p)
        /\ now - hist[p].since > USER_TIMEOUT + HEARTBEAT_CHECK_INTERVAL
        /\ step.op = "heartbeat" /\ step.arg = p /\ hist[p].lastSeenAt = now

\* C11: a heartbeat for a peer id without a record is answered 404 with
\* success false and leaves the registry as it was, creating no record; a
\* heartbeat for a peer with a record is answered 200 with success true and
\* sets that record's lastHeartbeat to now, every other record and the
\* record's username staying as they were.
C11_HeartbeatUnknownIsNotFound ==
    [][step'.op = "heartbeat" =>
        IF MapHas(onlineUsers, step'.arg)
        THEN /\ response'.status = 200 /\ response'.success
             /\ onlineUsers' =
                    {e \in onlineUsers : e.peerId # step'.arg} \cup
                    {[e EXCEPT !.lastHeartbeat = now] :
                        e \in {d \in onlineUsers : d.peerId = step'.arg}}
        ELSE /\ response'.status = 404 /\ ~response'.success
             /\ onlineUsers' = onlineUsers]_vars

\* C11 witness: a heartbeat for a peer that a sweep tick had removed has
\* just been answered 404, another peer's record being in the registry.
C11_Witness ==
    /\ step.op = "heartbeat"
    /\ response.status = 404
    /\ \E p, q \in PeerIds :
        /\ step.arg = p /\ hist[p].swept /\ ~MapHas(onlineUsers, p)
        /\ q # p /\ MapHas(onlineUsers, q)

\* C12: an unregister for a peer id without a record is answered with
\* success false and leaves the registry as it was; any unregister removes
\* at most the record of its peer id and keeps every other record, and the
\* registry it leaves is the one a further unregister of the same id leaves.
C12_UnregisterUnknownAndIdempotent ==
    [][step'.op = "unregister" =>
        /\ onlineUsers' = {e \in onlineUsers : e.peerId # step'.arg}
        /\ ~MapHas(onlineUsers, step'.arg) =>
               ~response'.success /\ onlineUsers' = onlineUsers
        /\ ~MapHas(onlineUsers', step'.arg)]_vars

\* C12 witness: an unregister for a peer that is not in the registry has
\* just been answered with success false, a second record being kept.
C12_Witness ==
    /\ step.op = "unregister"
    /\ step.arg \in PeerIds
    /\ ~response.success
    /\ \E q \in PeerIds : q # step.arg /\ MapHas(onlineUsers, q)

\* C13 as stated: an unregister request that carries a peerId is answered
\* with success true, whether or not the registry held that peer.
C13_UnregisterAlwaysTrue ==
    (step.op = "unregister" /\ step.arg # "") => response.success

\* C13 as amended: an unregister request is answered with HTTP 200, with
\* success true exactly when the registry held the peer of the request, and
\* with success false when the peer was absent or the peerId is missing.
C13_UnregisterTrueIffPresent ==
    [][step'.op = "unregister" =>
        /\ response'.status = 200
        /\ response'.success <=> MapHas(onlineUsers, step'.arg)]_vars

\* C13 witness: an unregister request that carries a peerId has just been
\* answered with HTTP 200 and success false, the registry being empty.
C13_Witness ==
    /\ step.op = "unregister"
    /\ step.arg # ""
    /\ response.status = 200
    /\ ~response.success
    /\ onlineUsers = {}

\* C14: a register request with an empty or missing peerId or username is
\* answered 400 with success false and leaves the registry as it was; with
\* both present it is answered 200 with success true, the record of the
\* peerId holds the username and lastHeartbeat = now, every other record is
\* kept, and GET /api/users lists the peer.
C14_RegisterValidates ==
    [][step'.op = "register" =>
        IF step'.arg # "" /\ step'.name # ""
        THEN /\ response'.status = 200 /\ response'.success
             /\ onlineUsers' =
                    {e \in onlineUsers : e.peerId # step'.arg} \cup
                    {[peerId |-> step'.arg, username |-> step'.name,
                      lastHeartbeat |-> now]}
             /\ [peerId |-> step'.arg, username |-> step'.name] \in ListPeers'
        ELSE /\ response'.status = 400 /\ ~response'.success
             /\ onlineUsers' = onlineUsers]_vars

\* C14 witness: a register request with a peerId and no username has just
\* been answered 400, the registry holding another peer's record.
C14_Witness ==
    /\ step.op = "register"
    /\ step.arg # "" /\ step.name = ""
    /\ response.status = 400
    /\ onlineUsers # {}
    /\ ~MapHas(onlineUsers, step.arg)

\* C15: after a registration of a peerId the registry holds exactly one
\* record of it, with the username and the time of that registration,
\* whatever record of the peerId it held before.
C15_ReRegisterOverwrites ==
    [][(step'.op = "register" /\ response'.status = 200) =>
        {e \in onlineUsers' : e.peerId = step'.arg} =
            {[peerId |-> step'.arg, username |-> step'.name,
              lastHeartbeat |-> now]}]_vars

\* C15 witness: a peer registered under one username has just been
\* registered again, later, under another one.
C15_Witness ==
    /\ step.op = "register"
    /\ step.was # "" /\ step.was # step.name
    /\ step.arg \in PeerIds
    /\ hist[step.arg].since < now
    /\ MapHas(onlineUsers, step.arg)
    /\ MapGet(onlineUsers, step.arg).username = step.name
    /\ MapGet(onlineUsers, step.arg).lastHeartbeat = now

\* C16: GET /api/users changes neither the set of records nor any record's
\* lastHeartbeat nor the sweep timer, and answers with the peers of the
\* records as they are.
C16_ListPeersIsPure ==
    [][step'.op = "users" =>
        /\ onlineUsers' = onlineUsers
        /\ sweepDue' = sweepDue
        /\ response'.users = ListPeers]_vars

\* C16 witness: GET /api/users has just listed a peer whose last contact is
\* older than the staleness timeout, its record still awaiting the sweep.
C16_Witness ==
    /\ step.op = "users"
    /\ \E p \in PeerIds :
        /\ MapHas(onlineUsers, p)
        /\ [peerId |-> p, username |-> MapGet(onlineUsers, p).username]
               \in response.users
        /\ Age(p) > USER_TIMEOUT
        /\ MapGet(onlineUsers, p).lastHeartbeat = hist[p].lastSeenAt

-----------------------------------------------------------------------------
(* Properties of the heartbeat client against the registry.                *)

\* A heartbeat reaches the registry from a peer that was present at its last
\* contact and has missed at most n heartbeats since.
HeartbeatAfterMissing(n) ==
    /\ step = Step("heartbeat", HbPeer)
    /\ client.presentBefore
    /\ client.missedBefore <= n

\* C10 as stated: with the configured values, a registered peer that misses
\* one or two consecutive heartbeats and then heartbeats again has not been
\* evicted by a sweep tick in between.
C10_NoFalseEviction ==
    HeartbeatAfterMissing(2) => response.status = 200 /\ Listed(HbPeer)

\* C10, amended: a registered peer that misses one heartbeat and then
\* heartbeats again, the request reaching the registry before the client
\* aborts it, has not been evicted by a sweep tick in between; and a peer the
\* registry no longer knows was removed by a sweep tick.
C10_OneMissedHeartbeatTolerated ==
    /\ HeartbeatAfterMissing(1) => response.status = 200 /\ Listed(HbPeer)
    /\ HeartbeatAfterMissing(2) /\ response.status # 200 => hist[HbPeer].swept

\* C10: a heartbeat arrives after one missed heartbeat and a sweep tick in
\* between, and the peer is still present.
C10_Witness ==
    /\ HeartbeatAfterMissing(1)
    /\ client.missedBefore = 1
    /\ client.sweepsBefore = 1
    /\ response.status = 200

\* C33: a heartbeat request and a sweep tick each run as one step of the
\* registry. A heartbeat that finds the record answers success and leaves it
\* with lastHeartbeat = now; one that finds none, the sweep having run
\* first, answers not-found and leaves none. A sweep tick removes a record
\* exactly when the last heartbeat or register answered with success for
\* its peer is older than USER_TIMEOUT, so a record that a heartbeat has
\* refreshed at the time of the tick is kept.
C33_HeartbeatSweepAtomic ==
    /\ [][step'.op = "heartbeat" =>
             IF MapHas(onlineUsers, step'.arg)
             THEN /\ response'.success
                  /\ MapHas(onlineUsers', step'.arg)
                  /\ MapGet(onlineUsers', step'.arg).lastHeartbeat = now
                  /\ hist'[step'.arg].lastSeenAt = now
             ELSE /\ ~response'.success
                  /\ ~MapHas(onlineUsers', step'.arg)]_vars
    /\ [][step'.op = "sweep" =>
             \A p \in PeerIds :
                 /\ MapHas(onlineUsers', p) <=>
                        /\ MapHas(onlineUsers, p)
                        /\ now - hist[p].lastSeenAt <= USER_TIMEOUT
                 /\ (MapHas(onlineUsers, p)
                        /\ MapGet(onlineUsers, p).lastHeartbeat = now) =>
                        MapHas(onlineUsers', p)]_vars

\* C33: at the time of a sweep tick that has not run yet, a heartbeat has
\* found a record past the staleness timeout and refreshed it, while the
\* record of another peer is as stale as that one was.
C33_Witness ==
    /\ step.op = "heartbeat"
    /\ step.was = "stale"
    /\ response.success
    /\ now = sweepDue
    /\ MapGet(onlineUsers, step.arg).lastHeartbeat = now
    /\ \E q \in PeerIds :
           /\ q # step.arg
           /\ MapHas(onlineUsers, q)
           /\ TimedOut(MapGet(onlineUsers, q), now)

\* The steps the heartbeat client makes by itself.
ClientSteps == {"hbSend", "heartbeat", "hbLost"}

\* The record of the client has been swept while its timer runs, and no
\* register request has arrived since.
SweptAway == hist[HbPeer].swept /\ client.state = "on"

\* C37: once a sweep tick has removed the record of a peer, the peer is not
\* listed until a register request for it arrives. Each heartbeat of the
\* client is answered not-found and leaves the registry as it was, no step
\* of the client or of the registry's timer puts the record back, and the
\* heartbeat timer of the client stays armed.
C37_SweptStaysAbsent ==
    /\ [](SweptAway => ~Listed(HbPeer) /\ client.timerDue >= now)
    /\ [][SweptAway =>
             /\ Listed(HbPeer)' => step'.op = "register"
             /\ step'.op \in ClientSteps \cup {"sweep", "tick"} =>
                    /\ onlineUsers' = onlineUsers
                    /\ SweptAway'
             /\ step'.op = "heartbeat" =>
                    response'.status = 404 /\ ~response'.success
             /\ client'.state = "on"]_vars

\* C37: a sweep tick has removed the record of the client, whose heartbeats
\* had been lost; its next heartbeat has just been answered not-found, the
\* peer is not listed, and the timer is armed for the heartbeat after it.
C37_Witness ==
    /\ step = Step("heartbeat", HbPeer)
    /\ response.status = 404
    /\ SweptAway
    /\ ~Listed(HbPeer)
    /\ client.timerDue > now

-----------------------------------------------------------------------------
(* Properties of the sessions.                                             *)

\* The Session entries of the map that are open.
OpenSessions == {c \in ConnIds : conns[c].state = "open" /\ connections[conns[c].peer] = c}

\* C1 as stated: connectToPeer(P) called again before an earlier attempt to P
\* has opened creates no second connection for P, so that P's session is
\* announced as established once.
C1_SessionDedup ==
    \A c \in ConnIds :
        /\ conns[c].dupOf = 0
        /\ \A d \in ConnIds : conns[d].dupOf = c => ~(conns[c].est /\ conns[d].est)

\* C1: two attempts to the same peer, the second made while the first was
\* pending, have both opened and both been announced as established.
C1_BothEstablished ==
    \E c, d \in ConnIds :
        /\ conns[d].dupOf = c
        /\ conns[c].est /\ conns[d].est
        /\ conns[c].state = "open" /\ conns[d].state = "open"

\* C4: an outbound attempt whose open timeout has fired is closed, is not
\* the Session entry of its peer, and has produced no session-established,
\* data or peer-removed event, then or later.
C4_TimedOutAttemptIsDead ==
    \A c \in ConnIds :
        conns[c].timer = "fired" =>
            /\ conns[c].state = "closed"
            /\ connections[conns[c].peer] # c
            /\ ~conns[c].est
            /\ ~conns[c].rem
            /\ \A e \in out.emitted : e.conn # c

\* C4: an attempt to a peer has timed out, and a later connection of the same
\* peer has been established and delivers data.
C4_Witness ==
    \E c, d \in ConnIds :
        /\ c < d
        /\ conns[c].timer = "fired"
        /\ conns[d].peer = conns[c].peer
        /\ out.emitted = {Event("data", d)}

\* C7: sendTo(P) returns true exactly when P has an open Session entry and
\* the send did not throw; it then has sent on that entry alone, otherwise
\* on nothing; and it leaves the Session map and the connections as they were.
C7_SendToDelivery ==
    [][step'.op = "sendTo" =>
        /\ out'.ret <=> (step'.arg \in {conns[c].peer : c \in OpenSessions}
                         /\ step'.arg \notin out'.threw)
        /\ out'.sent = IF out'.ret THEN {connections[step'.arg]} ELSE {}
        /\ out'.sent \subseteq OpenSessions
        /\ connections' = connections
        /\ conns' = conns]_vars

\* C7: sendTo on an open Session whose send throws has returned false, while
\* another peer has an attempt that has not opened.
C7_Witness ==
    /\ step.op = "sendTo"
    /\ out.threw = {step.arg}
    /\ ~out.ret
    /\ out.sent = {}
    /\ \E c \in ConnIds : conns[c].state = "connecting"

\* C8: broadcast tries one send on every Session entry that is open when it
\* is called, whichever sends throw, delivers on those that do not throw, and
\* returns normally.
C8_BroadcastIsolation ==
    [][step'.op = "broadcast" =>
        /\ out'.tried = OpenSessions
        /\ out'.sent = {c \in OpenSessions : conns[c].peer \notin out'.threw}
        /\ out'.ret
        /\ connections' = connections
        /\ conns' = conns]_vars

\* C8: a broadcast in which the send to one peer threw and the send to
\* another peer went out.
C8_Witness ==
    /\ step.op = "broadcast"
    /\ out.threw # {}
    /\ out.sent # {}
    /\ out.tried = OpenSessions
    /\ \E c \in out.tried \ out.sent : \E d \in out.sent : c < d

-----------------------------------------------------------------------------
(* Properties of the channel events and of teardown.                       *)

\* C17 as stated: when the 'error' event of a data connection has been
\* handled, the Session map holds no entry that refers to that connection.
C17_ErrorRemovesSession ==
    step.op = "connError" => connections[conns[out.conn].peer] # out.conn

\* C17: the 'error' event of an outbound attempt that had not opened has
\* been handled: its open timeout is cleared and the attempt is left pending.
C17_ErrorLeavesAttemptPending ==
    /\ step.op = "connError"
    /\ conns[out.conn].kind = "out"
    /\ conns[out.conn].state = "connecting"
    /\ conns[out.conn].timer = "cleared"

\* C18 as stated: removeConnection(P) and closeAllConnections() leave no
\* Session entry for the peers they affect, and notify the player-removed
\* subscribers of each peer whose entry they removed.
C18_TeardownNotifies ==
    [][(step'.op \in {"removeConnection", "closeAllConnections"}) =>
        \A r \in RemoteIds :
            (step'.op = "closeAllConnections" \/ step'.arg = r) =>
                /\ connections'[r] = 0
                /\ connections[r] # 0 =>
                       \E e \in out'.emitted : e.ev = "removed" /\ e.peer = r]_vars

\* C18: removeConnection(P) has removed the entry of an open Session
\* without a notification, and the connection is still open.
C18_RemovedSilently ==
    /\ step.op = "removeConnection"
    /\ out.conn # 0
    /\ out.emitted = {}
    /\ connections[step.arg] = 0
    /\ conns[out.conn].state = "open"
    /\ ~conns[out.conn].rem

\* C19: the channel events of a connection change the Session map and
\* notify in one way, whether the connection was initiated or accepted:
\* 'open' stores it as the entry of its peer and announces the session;
\* 'data' hands the payload on under its peer's id and changes no entry;
\* 'close' deletes the entry of its peer and announces the removal; 'error'
\* changes no entry and announces nothing.
C19_InboundLikeOutbound ==
    [][\A c \in ConnIds :
        /\ (step'.op = "connOpen" /\ conns[c].state # conns'[c].state) =>
               /\ connections' = [connections EXCEPT ![conns[c].peer] = c]
               /\ conns'[c].est /\ conns'[c].rem = conns[c].rem
        /\ (step'.op = "connData" /\ \E e \in out'.emitted : e.conn = c) =>
               /\ out'.emitted = {[ev |-> "data", peer |-> conns[c].peer, conn |-> c]}
               /\ connections' = connections /\ conns' = conns
        /\ (step'.op = "connClose" /\ conns[c].state # conns'[c].state) =>
               /\ connections' = [connections EXCEPT ![conns[c].peer] = 0]
               /\ conns'[c].rem /\ conns'[c].est = conns[c].est
        /\ (step'.op = "connError" /\ out'.conn = c) =>
               /\ connections' = connections
               /\ conns'[c].est = conns[c].est /\ conns'[c].rem = conns[c].rem
               /\ conns'[c].state = conns[c].state]_vars

\* C19 witness: an initiated and an accepted connection have both opened,
\* been announced, closed and been announced as removed.
C19_Witness ==
    \E c, d \in ConnIds :
        /\ conns[c].kind = "out" /\ conns[d].kind = "in"
        /\ conns[c].est /\ conns[d].est
        /\ conns[c].rem /\ conns[d].rem
        /\ step.op = "connClose"

\* C20 as stated: for a payload that arrives, every callback subscribed
\* through onData is invoked exactly once, whatever the other subscribers
\* do, and no callback that is not subscribed is invoked.
C20_DataFanOut ==
    step.op = "connData" =>
        /\ Members(out.invoked) = Members(callbacks["dataCallbacks"])
        /\ Len(out.invoked) = Len(callbacks["dataCallbacks"])

\* C20: a payload has arrived, the first subscriber has thrown and the
\* second subscriber has not been invoked.
C20_SubscriberSkipped ==
    /\ step.op = "connData"
    /\ Len(callbacks["dataCallbacks"]) = 2
    /\ out.threw = {callbacks["dataCallbacks"][1]}
    /\ out.invoked = <<callbacks["dataCallbacks"][1]>>

-----------------------------------------------------------------------------
(* Properties of the life cycle.                                           *)

\* C5 as stated: when destroy() has returned, the heartbeat timer is
\* stopped, the Session map and the VoiceCall map are empty, every call is
\* closed, the peer handle is released and all six subscriber sets are empty.
C5_DestroyClearsEverything ==
    step.op = "destroy" =>
        /\ heartbeatInterval = "null"
        /\ liveIntervals = 0
        /\ \A r \in RemoteIds : connections[r] = 0
        /\ \A r \in RemoteIds : voiceCalls[r] = 0
        /\ \A k \in CallIds : calls[k].state = "closed"
        /\ peer = 0
        /\ \A f \in CallbackFields : callbacks[f] = <<>>

\* C5: destroy() has returned with an unanswered call still in the VoiceCall
\* map and a subscriber still in the incoming-call set.
C5_LeftBehind ==
    /\ step.op = "destroy"
    /\ \E r \in RemoteIds : voiceCalls[r] # 0
    /\ callbacks["callCallbacks"] # <<>>

\* C6 as stated: the 'open' event of a Peer object that destroy() found
\* pending sets no peerId, stores no peer handle and starts no heartbeat timer.
C6_DestroyBeforeOpenStaysDown ==
    [][\A i \in 1 .. Len(peerObjs) :
          (/\ peerObjs[i].abandoned
           /\ peerObjs[i].state = "pending"
           /\ peerObjs'[i].state = "open")
          => /\ peerId' = peerId
             /\ peer' = peer
             /\ heartbeatInterval' = heartbeatInterval
             /\ liveIntervals' = liveIntervals]_vars

\* C6: after destroy() the orchestrator holds the Peer object that was
\* pending then, with a heartbeat timer running for it.
C6_Revived ==
    /\ peer # 0
    /\ peerObjs[peer].abandoned
    /\ peerId = peer
    /\ heartbeatInterval = "timer"

\* C22: connectToPeer(P) called while the Session map has an entry for P
\* creates no connection, arms no timer, emits no event and leaves the map
\* as it was; the map holds at most one Session for a peer.
C22_DuplicateOpenIsNoOp ==
    [][(step'.op = "connectToPeer" /\ connections[step'.arg] # 0) =>
          /\ conns' = conns
          /\ connections' = connections
          /\ out'.emitted = {}
          /\ \A r \in RemoteIds :
                 Cardinality({c \in ConnIds : connections'[r] = c}) <= 1]_vars

\* C22: connectToPeer(P) has returned at its second guard: the peer handle
\* is live, P has an open Session, and a further connection could have
\* been made.
C22_Witness ==
    /\ step.op = "connectToPeer"
    /\ peer # 0 /\ peerObjs[peer].state = "open"
    /\ HasOpenSession(step.arg)
    /\ Len(conns) < MaxConns

\* The moves of a connection's state: connecting, then open, then closed,
\* or closed without having been open.
SessionMoves ==
    {<<"connecting", "open">>, <<"connecting", "closed">>, <<"open", "closed">>}

\* C31: the state of a connection moves one way, connecting, open, closed.
\* A closed connection stays closed and is never put into the Session map,
\* whatever event arrives late; the map holds open connections only, and
\* an entry is put in by the 'open' of a connection that was connecting. A
\* connectToPeer that makes an attempt makes a new connection object and
\* leaves every earlier one, and the map, as they were.
C31_ClosedIsFinal ==
    /\ [](\A r \in RemoteIds :
             connections[r] # 0 => conns[connections[r]].state = "open")
    /\ [][\A c \in ConnIds :
             /\ conns'[c].state # conns[c].state =>
                    <<conns[c].state, conns'[c].state>> \in SessionMoves
             /\ conns[c].state = "closed" =>
                    \A r \in RemoteIds : connections'[r] # c
             /\ \A r \in RemoteIds :
                    (connections'[r] = c /\ connections[r] # c) =>
                        /\ step'.op = "connOpen"
                        /\ conns[c].state = "connecting"
                        /\ conns'[c].state = "open"]_vars
    /\ [][step'.op = "connectToPeer" =>
             /\ connections' = connections
             /\ \/ conns' = conns
                \/ /\ Len(conns') = Len(conns) + 1
                   /\ \A c \in ConnIds : conns'[c] = conns[c]
                   /\ conns'[Len(conns')].peer = step'.arg
                   /\ conns'[Len(conns')].state = "connecting"]_vars

\* C31: an attempt to a peer was closed by its open timeout, and a later
\* attempt to that peer has just opened on a connection object of its own,
\* which is the Session entry.
C31_Witness ==
    /\ step.op = "connOpen"
    /\ \E c, d \in ConnIds :
           /\ c < d
           /\ conns[c].peer = conns[d].peer
           /\ conns[c].timer = "fired" /\ conns[c].state = "closed"
           /\ conns[d].kind = "out" /\ conns[d].state = "open"
           /\ connections[conns[d].peer] = d

C34_OpenConnectionHasSession ==
    \A c \in ConnIds :
        conns[c].state = "open" => HasOpenSession(conns[c].peer)

\* C34: this peer has connected to a peer that has connected to it, both
\* connections have opened on the live Peer object, and the 'close' of one
\* of them has just removed the Session entry, which held the other: that
\* one is still open and the map has no entry for the peer.
C34_OpenConnectionOrphaned ==
    /\ step.op = "connClose"
    /\ \E c, d \in ConnIds :
           /\ conns[c].peer = conns[d].peer
           /\ conns[c].kind = "out" /\ conns[d].kind = "in"
           /\ conns[c].owner = peer /\ conns[d].owner = peer
           /\ conns[c].state = "closed" /\ conns[c].rem
           /\ conns[d].state = "open" /\ conns[d].est
           /\ connections[conns[d].peer] = 0

\* C35 as stated: an outbound attempt does not stay pending: it opens or it
\* is closed, by its open timeout at the latest; and the timer of an attempt
\* is cancelled by nothing but the 'open' of that attempt.
C35_PendingAttemptIsClosed ==
    /\ \A c \in 1 .. MaxConns :
           (c \in ConnIds /\ conns[c].kind = "out" /\ conns[c].state = "connecting")
               ~> (c \in ConnIds /\ conns[c].state \in {"open", "closed"})
    /\ [](\A c \in ConnIds : conns[c].timer = "cleared" => conns[c].est)

\* C35: an attempt has raised 'error' before it opened: its timer is
\* cancelled, it is neither open nor closed, and no timer is armed any more
\* that could close it, the timer of a later attempt having fired.
C35_AttemptLeftPending ==
    /\ step.op = "openTimeout"
    /\ \E c \in ConnIds :
           /\ conns[c].kind = "out"
           /\ conns[c].state = "connecting"
           /\ conns[c].timer = "cleared"
           /\ ~conns[c].est
    /\ \A d \in ConnIds : conns[d].timer # "armed"

-----------------------------------------------------------------------------
(* Properties of discovery.                                                *)

\* C21: an open Session does not depend on the registry. A step that ends
\* the open Session of a peer (its entry leaves the map, or its connection
\* is no longer open) is the transport's 'close' or an explicit teardown;
\* the sweep, an unregister, a poll of the registry and the timers of the
\* poll leave the entry and the connection as they are.
C21_SessionOutlivesRecord ==
    [][\A r \in RemoteIds :
          HasOpenSession(r) =>
              /\ (connections'[r] = 0 \/ conns'[connections'[r]].state # "open")
                     => step'.op \in {"connClose", "destroy"}
              /\ step'.op \in {"sweep", "unregister", "register", "tick",
                                "fetchOnlineUsers", "scheduledConnect"}
                     => /\ connections'[r] = connections[r]
                        /\ conns'[connections[r]] = conns[connections[r]]]_vars

\* C21: the sweep has just dropped the record of a peer that was listed
\* when the page polled, and the Session to that peer is open.
C21_Witness ==
    \E r \in RemoteIds :
        /\ step.op = "sweep"
        /\ hist[r].swept
        /\ ~MapHas(onlineUsers, r)
        /\ HasOpenSession(r)
        /\ conns[connections[r]].kind = "out"

-----------------------------------------------------------------------------
(* Properties of the identity and of the heartbeat timer.                  *)

\* C23 as stated: while the orchestrator has no peerId (before the 'open'
\* of the signaling server, or after destroy()), connectToPeer, callPeer and
\* answerCall create no connection attempt and no call, and add no entry to
\* the Session map or to the VoiceCall map.
C23_RejectedWithoutIdentity ==
    [][(peerId = 0 /\ step'.op \in {"connectToPeer", "callPeer", "answerCall"}) =>
          /\ conns' = conns
          /\ calls' = calls
          /\ connections' = connections
          /\ voiceCalls' = voiceCalls]_vars

\* C23: the orchestrator has no peerId and no peer handle, and answerCall
\* has just put an accepted call into the VoiceCall map.
C23_AnsweredWithoutIdentity ==
    /\ step.op = "answerCall"
    /\ peerId = 0 /\ peer = 0
    /\ \E r \in RemoteIds :
           /\ voiceCalls[r] = Len(calls)
           /\ voiceCalls[r] # 0
           /\ calls[voiceCalls[r]].kind = "in"
           /\ calls[voiceCalls[r]].state = "active"

\* C24: a heartbeat goes out only while the orchestrator has a peerId and a
\* live peer handle and its timer is armed; when destroy() or stopHeartbeat()
\* has returned no timer runs and nothing has been sent; and there is never
\* more than one running timer, the one this.heartbeatInterval holds.
C24_HeartbeatWithinIdentity ==
    /\ out.hb => /\ peerId # 0
                 /\ peer # 0 /\ peerObjs[peer].state = "open"
                 /\ heartbeatInterval = "timer"
    /\ liveIntervals = IF heartbeatInterval = "timer" THEN 1 ELSE 0
    /\ step.op \in {"destroy", "stopHeartbeat"} => liveIntervals = 0 /\ ~out.hb

\* C24: startHeartbeat has been called while a timer was running: one timer
\* runs, and the heartbeat of the call has gone out.
C24_Witness ==
    /\ step.op = "startHeartbeat"
    /\ step.was = "timer"
    /\ liveIntervals = 1
    /\ out.hb

\* C25: when a heartbeat request has failed, timed out or been answered
\* not-found, the fields of the orchestrator are what they were before and
\* the timer is due when it was due; and a tick of the timer that finds the
\* identity in place sends a heartbeat, whatever became of the last one.
C25_HeartbeatFailureSwallowed ==
    [][/\ (step'.op = "heartbeatSettled" /\ step'.arg # "ok") =>
              /\ <<peer, peerId, apiServerUrl, heartbeatInterval, connections,
                    voiceCalls, callbacks, peerObjs, conns, calls, liveIntervals>>' =
                 <<peer, peerId, apiServerUrl, heartbeatInterval, connections,
                   voiceCalls, callbacks, peerObjs, conns, calls, liveIntervals>>
              /\ client'.timerDue = client.timerDue
       /\ (step'.op = "heartbeatTimer" /\ peerId # 0 /\ peer # 0
              /\ peerObjs[peer].state = "open") =>
              /\ out'.hb
              /\ Request("heartbeat") \in app'.requests]_vars

\* C25: a heartbeat has failed, timed out or been answered not-found while
\* a Session was open, and the next tick of the timer has sent a heartbeat.
C25_Witness ==
    /\ step.op = "heartbeatTimer"
    /\ client.missed = 1
    /\ out.hb
    /\ heartbeatInterval = "timer"
    /\ HasOpenSession(PollRemote)

\* The requests of a kind that are in flight.
InFlight(kind) == {q \in app.requests : q.kind = kind}

\* C26 as stated: one client never has two heartbeat requests in flight at
\* the same time, nor two users requests.
C26_NoOverlappingRequests ==
    /\ Cardinality(InFlight("heartbeat")) <= 1
    /\ Cardinality(InFlight("users")) <= 1

\* C26: the poll timer has fired one interval after a users request went
\* out, that request is not yet aborted, and a second one is in flight.
C26_TwoFetchesInFlight ==
    \E q, w \in InFlight("users") :
        /\ w.sentAt = q.sentAt + FETCH_INTERVAL
        /\ now < q.sentAt + FETCH_ABORT
        /\ Cardinality(InFlight("heartbeat")) <= 1

-----------------------------------------------------------------------------
(* Properties of the voice calls.                                          *)

\* C27: when closeCall(P) has returned the VoiceCall map has no entry for
\* P, and if it had none before, the map and the calls are as they were;
\* when closeAllCalls() has returned the map is empty; and when the 'close'
\* or the 'error' event of a call to P has been handled the map has no
\* entry for P.
C27_CallTeardown ==
    [][/\ step'.op = "closeCall" =>
              /\ voiceCalls'[step'.arg] = 0
              /\ voiceCalls[step'.arg] = 0 => voiceCalls' = voiceCalls /\ calls' = calls
              /\ voiceCalls[step'.arg] # 0 => calls'[voiceCalls[step'.arg]].state = "closed"
       /\ step'.op = "closeAllCalls" =>
              /\ \A r \in RemoteIds : voiceCalls'[r] = 0
              /\ \A r \in RemoteIds :
                     voiceCalls[r] # 0 => calls'[voiceCalls[r]].state = "closed"
       /\ step'.op \in {"callClose", "callError"} => voiceCalls'[step'.arg] = 0]_vars

\* C27: the 'error' event of a call that was the VoiceCall entry of its
\* peer has been handled: the entry is gone and the call of another peer is
\* still in the map.
C27_Witness ==
    /\ step.op = "callError"
    /\ out.conn # 0
    /\ calls[out.conn].peer = step.arg
    /\ voiceCalls[step.arg] = 0
    /\ \E r \in RemoteIds : voiceCalls[r] # 0

\* C28 as stated: every call the page makes with callPeer goes to a peer
\* that has an entry in the Session map at that moment.
C28_CallsOnlyPeersWithSession ==
    [][\A k \in (1 .. Len(calls')) \ CallIds :
          calls'[k].kind = "out" => connections[calls'[k].peer] # 0]_vars

\* C28: the page has entered the room and called a stored member whose
\* Session had closed: the call is in the VoiceCall map and the Session map
\* has no entry for its peer.
C28_CalledWithoutSession ==
    /\ step.op = "enterVoiceRoom"
    /\ \E r \in Members(app.members) :
           /\ voiceCalls[r] # 0
           /\ calls[voiceCalls[r]].state = "connecting"
           /\ connections[r] = 0
           /\ \E c \in ConnIds : conns[c].peer = r /\ conns[c].rem

\* A call is live: placed or answered, and neither closed nor errored.
LiveCall(k) == calls[k].state \in {"connecting", "active"} /\ ~calls[k].err

\* C36 as stated: while a call with a peer is live, the VoiceCall map has an
\* entry for that peer.
C36_LiveCallHasEntry ==
    \A k \in CallIds : LiveCall(k) => voiceCalls[calls[k].peer] # 0

\* C36: this peer has called a peer and answered a call of that peer on the
\* live Peer object; the 'close' of the call it placed has just deleted
\* the VoiceCall entry, which held the answered call: that call is still
\* live and the map has no entry for the peer.
C36_LiveCallWithoutEntry ==
    /\ step.op = "callClose"
    /\ \E k, j \in CallIds :
           /\ k < j
           /\ calls[k].peer = step.arg /\ calls[j].peer = step.arg
           /\ calls[k].kind = "out" /\ calls[k].state = "closed"
           /\ calls[j].kind = "in" /\ calls[j].state = "active" /\ LiveCall(j)
           /\ calls[k].owner = peer /\ calls[j].owner = peer
           /\ out.conn = j
           /\ voiceCalls[step.arg] = 0

-----------------------------------------------------------------------------
(* Properties of the dispatch of payloads.                                 *)

\* C29 as stated: a payload is handled as a game update exactly when its
\* type is join, position or leave, as a voice update exactly when its type
\* is voice-join or voice-leave, as chat exactly when it has a text and no
\* type, and by at most one of the three handlers; a payload of any other
\* shape, and one that is not JSON, is handled by none. A field counts as
\* there when it is truthy, which is what the code tests.
C29_DispatchByShape ==
    step.op \in {"handleIncomingData", "panelsOnData"} =>
        /\ "game" \in app.handled <=>
               ~ParseThrows(app.data) /\ app.data.type \in {"join", "position", "leave"}
        /\ "voice" \in app.handled <=>
               ~ParseThrows(app.data) /\ app.data.type \in {"voice-join", "voice-leave"}
        /\ "chat" \in app.handled <=>
               /\ ~ParseThrows(app.data)
               /\ Truthy(app.data.text)
               /\ ~Truthy(app.data.type)
        /\ Cardinality(app.handled) <= 1

\* C29: handleIncomingData has taken a payload with an unrecognized type
\* and a text as a chat message.
C29_UnknownTypeTakenAsChat ==
    /\ step.op = "handleIncomingData"
    /\ app.data.type = "other"
    /\ app.data.text = "hi"
    /\ app.handled = {"chat"}

-----------------------------------------------------------------------------
(* Properties of the pipelines.                                            *)

\* The step is an event of the pipeline of peer p: the 'open', 'close' or
\* open timeout of a connection of p, a payload or an 'error' on one, a
\* send to p that threw, or the 'close' or 'error' of a call of p.
EventOf(p) ==
    \/ /\ step'.op \in {"connOpen", "connClose", "openTimeout"}
       /\ \E c \in ConnIds : conns[c].peer = p /\ conns'[c] # conns[c]
    \/ /\ step'.op = "connData"
       /\ \E e \in out'.emitted : e.peer = p
    \/ /\ step'.op = "connError"
       /\ conns[out'.conn].peer = p
    \/ /\ step'.op = "sendTo"
       /\ step'.arg = p /\ out'.threw = {p}
    \/ /\ step'.op \in {"callClose", "callError"}
       /\ step'.arg = p

\* C30: an event of the pipeline of a peer P leaves the Session entry and
\* the VoiceCall entry of every other peer, with the connection and the call
\* they hold, as they were.
C30_PerPeerIsolation ==
    [][\A p \in RemoteIds :
          EventOf(p) =>
              \A q \in RemoteIds \ {p} :
                  /\ connections'[q] = connections[q]
                  /\ voiceCalls'[q] = voiceCalls[q]
                  /\ connections[q] # 0 => conns'[connections[q]] = conns[connections[q]]
                  /\ voiceCalls[q] # 0 => calls'[voiceCalls[q]] = calls[voiceCalls[q]]]_vars

\* C30: the Session of a peer has closed while another peer had an open
\* Session and an active call, which are still there.
C30_Witness ==
    /\ step.op = "connClose"
    /\ \E c \in ConnIds, q \in RemoteIds :
           /\ conns[c].rem /\ conns[c].state = "closed"
           /\ conns[c].peer # q
           /\ connections[conns[c].peer] = 0
           /\ HasOpenSession(q)
           /\ voiceCalls[q] # 0
           /\ calls[voiceCalls[q]].state = "active"

-----------------------------------------------------------------------------
(* Properties of the players.                                              *)

\* C38: a game update that arrives on a connection of peer F changes at
\* most the player record under the key F. A record is stored under the
\* key of its own peerId, whatever peerId the payload carries; a join with
\* its fields stores the record of F and a leave removes it; a position
\* update changes the position of the record of F and, if F has none,
\* stores nothing.
C38_UpdateKeyedBySender ==
    /\ [](\A r \in RemoteIds :
             app.players[r] # NoPlayer => app.players[r].peerId = r)
    /\ [][step'.op = "gameUpdate" =>
             /\ \A q \in RemoteIds \ {step'.arg} : app'.players[q] = app.players[q]
             /\ step'.name = "join" =>
                    \/ app'.players[step'.arg].peerId = step'.arg
                    \/ app'.players = app.players
             /\ step'.name = "position" =>
                    /\ app.players[step'.arg] = NoPlayer => app'.players = app.players
                    /\ app'.players[step'.arg].peerId = app.players[step'.arg].peerId
             /\ step'.name = "leave" => app'.players[step'.arg] = NoPlayer]_vars

\* C38: a peer with an open Session and no player record has sent a
\* position update that carries the peerId of another peer, which has a
\* record: no record is stored for the sender and the other record is as
\* it was.
C38_Witness ==
    /\ step.op = "gameUpdate"
    /\ step.name = "position"
    /\ step.was \in RemoteIds \ {step.arg}
    /\ HasOpenSession(step.arg)
    /\ app.players[step.arg] = NoPlayer
    /\ app.players[step.was] # NoPlayer
    /\ app.players[step.was].peerId = step.was

\* The members playersInRooms gives for a room.
RoomMembers(room) == IF app.rooms[room].has THEN app.rooms[room].members ELSE {}

\* C39: playersInRooms has no room id with an empty Set, and the members
\* it gives for a room are the peers added to that room and not taken out
\* of it since, by removePlayerFromRoom, clearPlayersInRooms or reset.
C39_RoomsNeverEmpty ==
    \A room \in RoomIds :
        /\ app.rooms[room].has => app.rooms[room].members # {}
        /\ RoomMembers(room) = app.added[room]

\* C39: removePlayerFromRoom has taken the last member out of a room, whose
\* key is gone, while the same peer is still a member of the other room
\* next to another peer.
C39_Witness ==
    /\ step.op = "removePlayerFromRoom"
    /\ ~app.rooms[step.arg].has
    /\ \E other \in RoomIds \ {step.arg} :
           /\ step.name \in RoomMembers(other)
           /\ Cardinality(RoomMembers(other)) = 2

====
